---- MODULE Spec2Model ----
(***************************************************************************)
(* Denoising engine of the DAS noise/denoising demo: the denoiser classes  *)
(* (GaussianFilter, MovingAverageFilter, MedianFilter, BilateralFilter,    *)
(* WaveletDenoising) and DenoisingFactory, driven by a caller that         *)
(* resolves or constructs a denoiser and calls its methods on an array.    *)
(*                                                                         *)
(* Arrays are NumPy float64 arrays.  A sample is kept in fixed point: the  *)
(* integer s stands for the real s / UNIT.  np.exp is the table ExpTab     *)
(* (weights in units of 1 / WUNIT).  An array is [shape, v]: its shape and *)
(* its samples in row-major order.                                         *)
(***************************************************************************)
EXTENDS Integers, Sequences, FiniteSets, TLC

\* ------------------------------------------------------------------ bounds
\* longest 1D input
MaxLen == 3
\* the whole-unit sample values an input array is made of
InputLevels == {0, 2}
\* fixed-point resolution of a sample: s stands for s / UNIT
UNIT == 100

\* fixed-point resolution of a weight, the scale of ExpTab
WUNIT == 10 * 10

\* ------------------------------------------------------------------- state
VARIABLES
  PYWT_AVAILABLE,  \* wavelet_denoising.PYWT_AVAILABLE: "import pywt" succeeded
  denoiser,        \* the caller's denoiser instance: [kind, cfg], or NoInst
  made,            \* the constructor call that made `denoiser`: [kind, kw]
  noisy_data,      \* the caller's input array
  last             \* the last call: what was called, with what, and its result

vars == << PYWT_AVAILABLE, denoiser, made, noisy_data, last >>

\* ----------------------------------------------------------------- helpers
Min2(a, b) == IF a < b THEN a ELSE b
Max2(a, b) == IF a > b THEN a ELSE b
Abs(x) == IF x < 0 THEN -x ELSE x

RECURSIVE SumSeq(_)
SumSeq(s) == IF s = << >> THEN 0 ELSE Head(s) + SumSeq(Tail(s))

RECURSIVE ProdSeq(_)
ProdSeq(s) == IF s = << >> THEN 1 ELSE Head(s) * ProdSeq(Tail(s))

RECURSIVE Concat(_)
Concat(ss) == IF ss = << >> THEN << >> ELSE Head(ss) \o Concat(Tail(ss))

SeqRange(s) == {s[i] : i \in 1..Len(s)}

\* np.exp(-k/8) in units of 1/WUNIT, rounded; 0 beyond the table
ExpTab ==
  << 100, 88, 78, 69, 61, 54, 47, 42, 37, 32, 29, 25, 22, 20, 17, 15,
     14, 12, 11, 9, 8, 7, 6, 6, 5, 4, 4, 3, 3, 3, 2, 2, 2, 2, 1, 1,
     1, 1, 1, 1, 1, 1, 1 >>

ExpNeg8(k) == IF k + 1 <= Len(ExpTab) THEN ExpTab[k + 1] ELSE 0

\* np.nan, as a weight or as a sample
NaN == 0 - 1000000

\* a * b of floats, either of which may be NaN
Mul(a, b) == IF a = NaN \/ b = NaN THEN NaN ELSE a * b

\* np.exp(-0.5 * numsq / densq), the argument rounded to eighths.  With
\* densq = 0 the quotient is 0/0 = nan or x/0 = inf (NumPy warns, it does
\* not raise): exp(nan) = nan, exp(-inf) = 0
ExpNegHalfQ(numsq, densq) ==
  IF densq = 0 THEN (IF numsq = 0 THEN NaN ELSE 0)
  ELSE ExpNeg8((8 * numsq + densq) \div (2 * densq))

\* np.exp(-0.5 * (num / den) ** 2)
ExpNegHalfSq(num, den) == ExpNegHalfQ(num * num, den * den)

\* ------------------------------------------------------------------ arrays
NDim(m) == Len(m.shape)
Size(m) == ProdSeq(m.shape)

\* stride of axis a (1-based axis) of a row-major array of this shape
Stride(shape, a) == ProdSeq(SubSeq(shape, a + 1, Len(shape)))

\* 0-based coordinate along axis a of the 0-based flat index p
Coord(shape, a, p) == (p \div Stride(shape, a)) % shape[a]

\* the array a denoiser gives back when it fails: no array at all
NoArray == [shape |-> << 0 >>, v |-> << >>]

\* scipy.ndimage boundary modes: the 0-based index inside 0..n-1 that
\* position i of the extended line reads, or -1 when the mode fills with cval
ExtIndex(mode, i, n) ==
  IF i >= 0 /\ i < n THEN i
  ELSE CASE mode = "constant" -> -1
         [] mode = "nearest" -> IF i < 0 THEN 0 ELSE n - 1
         [] mode = "wrap" -> i % n
         [] mode = "reflect" ->
              LET r == i % (2 * n) IN IF r < n THEN r ELSE 2 * n - 1 - r
         [] mode = "mirror" ->
              IF n = 1 THEN 0
              ELSE LET r == i % (2 * n - 2) IN IF r < n THEN r ELSE 2 * n - 2 - r

BoundaryModes == {"reflect", "constant", "nearest", "mirror", "wrap"}

\* the samples of the window of extent lo[a]..hi[a] (offsets, per axis)
\* around the 0-based flat index p, in row-major order of the offsets;
\* base is the flat index built so far, -1 once an axis fell outside in
\* mode "constant"
RECURSIVE WindowFrom(_, _, _, _, _, _, _, _)
WindowFrom(m, p, lo, hi, mode, cval, a, base) ==
  IF a > NDim(m)
    THEN << IF base < 0 THEN cval ELSE m.v[base + 1] >>
    ELSE Concat([t \in 1..(hi[a] - lo[a] + 1) |->
           LET c == ExtIndex(mode, Coord(m.shape, a, p) + lo[a] + t - 1, m.shape[a])
           IN WindowFrom(m, p, lo, hi, mode, cval, a + 1,
                IF base < 0 \/ c < 0 THEN -1 ELSE base + c * Stride(m.shape, a))])

Window(m, p, lo, hi, mode, cval) == WindowFrom(m, p, lo, hi, mode, cval, 1, 0)

\* a window of `size` samples along axis a only (origin 0: it starts
\* size \div 2 before the position)
AxisLo(m, a, size) == [b \in 1..NDim(m) |-> IF b = a THEN -(size \div 2) ELSE 0]
AxisHi(m, a, size) ==
  [b \in 1..NDim(m) |-> IF b = a THEN size - 1 - (size \div 2) ELSE 0]

\* insertion sort, ascending
RECURSIVE Insert(_, _)
Insert(x, s) ==
  IF s = << >> THEN << x >>
  ELSE IF x <= Head(s) THEN << x >> \o s ELSE << Head(s) >> \o Insert(x, Tail(s))

RECURSIVE Sort(_)
Sort(s) == IF s = << >> THEN << >> ELSE Insert(Head(s), Sort(Tail(s)))

\* ----------------------------------------------------- scipy.ndimage calls
\* per-axis sizes of a filter: a scalar size is used along every axis
NormalizeSize(m, size) == [a \in 1..NDim(m) |-> size]

CenteredLo(sizes) == [a \in 1..Len(sizes) |-> -(sizes[a] \div 2)]
CenteredHi(sizes) == [a \in 1..Len(sizes) |-> sizes[a] - 1 - (sizes[a] \div 2)]

\* (variant: the mean of the two middle samples for a window of even length,
\* as np.median computes it)
MedianOfWindowInterpolated(w) ==
  IF Len(w) % 2 = 0
    THEN (Sort(w)[Len(w) \div 2] + Sort(w)[(Len(w) \div 2) + 1]) \div 2
    ELSE Sort(w)[(Len(w) \div 2) + 1]

\* the sample a median filter gives for one window: the element of rank
\* len \div 2 of the sorted window
MedianOfWindow(w) == Sort(w)[(Len(w) \div 2) + 1]

\* ndimage.median_filter(m, size=sizes, mode=mode); cval is left at 0.0
MedianFilterND(m, sizes, mode) ==
  [shape |-> m.shape,
   v |-> [q \in 1..Size(m) |->
            MedianOfWindow(Window(m, q - 1, CenteredLo(sizes), CenteredHi(sizes),
                                  mode, 0))]]

\* ndimage.uniform_filter1d(m, size, axis=a-1, mode=mode): the mean of
\* `size` samples along axis a
UniformFilter1D(m, size, a, mode) ==
  [shape |-> m.shape,
   v |-> [q \in 1..Size(m) |->
            SumSeq(Window(m, q - 1, AxisLo(m, a, size), AxisHi(m, a, size), mode, 0))
              \div size]]

\* ndimage.uniform_filter(m, size=sizes, mode=mode): one pass per axis whose
\* size is > 1, in axis order; a copy when there is none
RECURSIVE UniformFilterFrom(_, _, _, _)
UniformFilterFrom(m, sizes, mode, a) ==
  IF a > NDim(m) THEN m
  ELSE UniformFilterFrom(IF sizes[a] > 1 THEN UniformFilter1D(m, sizes[a], a, mode)
                         ELSE m,
                         sizes, mode, a + 1)

UniformFilterND(m, sizes, mode) == UniformFilterFrom(m, sizes, mode, 1)

\* radius of the kernel of gaussian_filter1d: int(truncate * sigma + 0.5),
\* truncate = 4.0
GaussianRadius(sigma) == 4 * sigma

\* weights exp(-0.5 * x^2 / sigma^2), x = -radius..radius
GaussianKernel1D(sigma) ==
  [t \in 1..(2 * GaussianRadius(sigma) + 1) |->
     ExpNegHalfSq(Abs(t - 1 - GaussianRadius(sigma)), sigma)]

RECURSIVE Dot(_, _)
Dot(w, x) == IF w = << >> THEN 0 ELSE Head(w) * Head(x) + Dot(Tail(w), Tail(x))

\* ndimage.gaussian_filter1d(m, sigma, axis=a-1, mode, cval): correlation
\* with the normalized kernel
GaussianFilter1D(m, sigma, a, mode, cval) ==
  LET k == GaussianKernel1D(sigma)
      r == GaussianRadius(sigma)
      lo == [b \in 1..NDim(m) |-> IF b = a THEN -r ELSE 0]
      hi == [b \in 1..NDim(m) |-> IF b = a THEN r ELSE 0]
  IN [shape |-> m.shape,
      v |-> [q \in 1..Size(m) |->
               Dot(k, Window(m, q - 1, lo, hi, mode, cval)) \div SumSeq(k)]]

\* ndimage.gaussian_filter(m, sigma, mode, cval): one 1D pass per axis,
\* axes whose sigma is not > 1e-15 are skipped; a copy when none is left
RECURSIVE GaussianFilterFrom(_, _, _, _, _)
GaussianFilterFrom(m, sigma, mode, cval, a) ==
  IF a > NDim(m) THEN m
  ELSE GaussianFilterFrom(IF sigma > 0 THEN GaussianFilter1D(m, sigma, a, mode, cval)
                          ELSE m,
                          sigma, mode, cval, a + 1)

GaussianFilterND(m, sigma, mode, cval) == GaussianFilterFrom(m, sigma, mode, cval, 1)

\* --------------------------------------------------------- BilateralFilter
\* s[a:b] of Python for 0 <= a <= b <= len(s)
PySlice(s, a, b) == SubSeq(s, a + 1, b)

\* (variant: an even size is rounded down to the odd size below it)
OddWindowSizeDown(window_size) ==
  IF window_size % 2 = 0 THEN window_size - 1 ELSE window_size

\* "if window_size % 2 == 0: window_size += 1"
OddWindowSize(window_size) ==
  IF window_size % 2 = 0 THEN window_size + 1 ELSE window_size

\* _compute_spatial_weights_1d: exp(-0.5 * (d / spatial_sigma)^2) for
\* d = -half_window..half_window
ComputeSpatialWeights1D(window_size, spatial_sigma) ==
  LET half_window == window_size \div 2
  IN [t \in 1..(2 * half_window + 1) |->
        ExpNegHalfSq(Abs(t - 1 - half_window), spatial_sigma)]

\* _compute_spatial_weights_2d: exp(-0.5 * (x^2 + y^2) / spatial_sigma^2),
\* a sequence of rows
ComputeSpatialWeights2D(window_size, spatial_sigma) ==
  LET half_window == window_size \div 2
  IN [r \in 1..(2 * half_window + 1) |->
        [c \in 1..(2 * half_window + 1) |->
           ExpNegHalfQ((r - 1 - half_window) * (r - 1 - half_window)
                         + (c - 1 - half_window) * (c - 1 - half_window),
                       spatial_sigma * spatial_sigma)]]

\* float('inf') as an intensity_sigma
PosInf == 1000000

\* (variant: a linear kernel 1 - |s - center| / intensity_sigma, which is
\* negative for a sample further than intensity_sigma from the center)
IntensityWeightsLinear(window_data, center_value, intensity_sigma) ==
  [t \in 1..Len(window_data) |->
     IF intensity_sigma = PosInf THEN WUNIT
     ELSE IF intensity_sigma = 0 THEN NaN
     ELSE WUNIT - (WUNIT * Abs(window_data[t] - center_value))
                    \div (Abs(intensity_sigma) * UNIT)]

\* exp(-0.5 * ((s - center) / intensity_sigma)^2) for every window sample;
\* samples are in units of 1/UNIT, intensity_sigma in whole units
\* (x / inf = 0 and exp(-0.0) = 1)
IntensityWeights(window_data, center_value, intensity_sigma) ==
  [t \in 1..Len(window_data) |->
     IF intensity_sigma = PosInf THEN WUNIT
     ELSE ExpNegHalfSq(Abs(window_data[t] - center_value), intensity_sigma * UNIT)]

\* (variant: the test is "np.sum(total_weights) != 0"; nan != 0 is True
\* and the average with nan weights is nan)
WeightedOrCenterNonZero(window_data, total_weights, center_value) ==
  IF NaN \in SeqRange(total_weights) THEN NaN
  ELSE IF SumSeq(total_weights) # 0
    THEN Dot(total_weights, window_data) \div SumSeq(total_weights)
  ELSE center_value

\* one output sample: the weighted average when the weights sum to > 0,
\* the center sample otherwise (a sum with a nan in it is nan, and
\* nan > 0 is False)
WeightedOrCenter(window_data, total_weights, center_value) ==
  IF NaN \notin SeqRange(total_weights) /\ SumSeq(total_weights) > 0
    THEN Dot(total_weights, window_data) \div SumSeq(total_weights)
    ELSE center_value

\* (variant: the slice runs to the end of the kernel, whatever the window)
WindowSpatialWeights1DToEnd(spatial_weights, i, half_window, n) ==
  PySlice(spatial_weights, half_window - (i - Max2(0, i - half_window)),
          Len(spatial_weights))

\* spatial_weights[(half_window - (i - start_idx)):(half_window + (end_idx - i))]
\* for the position i (0-based) of an axis of length n
WindowSpatialWeights1D(spatial_weights, i, half_window, n) ==
  PySlice(spatial_weights, half_window - (i - Max2(0, i - half_window)),
          half_window + (Min2(n, i + half_window + 1) - i))

\* (variant: the spatial weights are taken from the start of the kernel,
\* not from the offset of the window in it)
Bilateral1DAtUnshifted(v, i, half_window, spatial_weights, intensity_sigma) ==
  LET start_idx == Max2(0, i - half_window)
      end_idx == Min2(Len(v), i + half_window + 1)
      window_data == PySlice(v, start_idx, end_idx)
      center_value == v[i + 1]
      intensity_weights == IntensityWeights(window_data, center_value, intensity_sigma)
      window_spatial_weights == PySlice(spatial_weights, 0, end_idx - start_idx)
      total_weights ==
        [t \in 1..Len(window_data) |->
           Mul(window_spatial_weights[t], intensity_weights[t])]
  IN WeightedOrCenter(window_data, total_weights, center_value)

\* the body of the loop of _bilateral_filter_1d for the 0-based position i
Bilateral1DAt(v, i, half_window, spatial_weights, intensity_sigma) ==
  LET start_idx == Max2(0, i - half_window)
      end_idx == Min2(Len(v), i + half_window + 1)
      window_data == PySlice(v, start_idx, end_idx)
      center_value == v[i + 1]
      intensity_weights == IntensityWeights(window_data, center_value, intensity_sigma)
      window_spatial_weights ==
        WindowSpatialWeights1D(spatial_weights, i, half_window, Len(v))
      total_weights ==
        [t \in 1..Len(window_data) |->
           Mul(window_spatial_weights[t], intensity_weights[t])]
  IN WeightedOrCenter(window_data, total_weights, center_value)

\* _bilateral_filter_1d on the samples v of a 1D array
BilateralFilter1D(v, spatial_sigma, intensity_sigma, window_size) ==
  LET ws == OddWindowSize(window_size)
      half_window == ws \div 2
      spatial_weights == ComputeSpatialWeights1D(ws, spatial_sigma)
  IN [q \in 1..Len(v) |->
        Bilateral1DAt(v, q - 1, half_window, spatial_weights, intensity_sigma)]

\* spatial_weights[row slice, column slice] for the position (i, j) of a
\* rows x cols array: the rows of the slice
WindowSpatialWeights2D(spatial_weights, i, j, half_window, rows, cols) ==
  LET kept == WindowSpatialWeights1D(spatial_weights, i, half_window, rows)
  IN [r \in 1..Len(kept) |-> WindowSpatialWeights1D(kept[r], j, half_window, cols)]

\* the body of the loops of _bilateral_filter_2d for the position (i, j)
Bilateral2DAt(m, i, j, half_window, spatial_weights, intensity_sigma) ==
  LET rows == m.shape[1]
      cols == m.shape[2]
      row_start == Max2(0, i - half_window)
      row_end == Min2(rows, i + half_window + 1)
      col_start == Max2(0, j - half_window)
      col_end == Min2(cols, j + half_window + 1)
      window_data ==
        Concat([r \in 1..(row_end - row_start) |->
                  [c \in 1..(col_end - col_start) |->
                     m.v[(row_start + r - 1) * cols + (col_start + c - 1) + 1]]])
      center_value == m.v[i * cols + j + 1]
      intensity_weights == IntensityWeights(window_data, center_value, intensity_sigma)
      window_spatial_weights ==
        Concat(WindowSpatialWeights2D(spatial_weights, i, j, half_window, rows, cols))
      total_weights ==
        [t \in 1..Len(window_data) |->
           Mul(window_spatial_weights[t], intensity_weights[t])]
  IN WeightedOrCenter(window_data, total_weights, center_value)

\* _bilateral_filter_2d
BilateralFilter2D(m, spatial_sigma, intensity_sigma, window_size) ==
  LET ws == OddWindowSize(window_size)
      half_window == ws \div 2
      spatial_weights == ComputeSpatialWeights2D(ws, spatial_sigma)
  IN [shape |-> m.shape,
      v |-> [q \in 1..Size(m) |->
               Bilateral2DAt(m, (q - 1) \div m.shape[2], (q - 1) % m.shape[2],
                             half_window, spatial_weights, intensity_sigma)]]

\* ------------------------------------------------------- pywt (lengths)
\* pywt.Wavelet(name).dec_len for the wavelets the step-3 widget offers
DecLen(wavelet) ==
  CASE wavelet = "haar" -> 2
    [] wavelet = "coif1" -> 6
    [] wavelet = "db4" -> 8
    [] wavelet = "sym4" -> 8

\* pywt.dwt_coeff_len(n, filter_len, mode='symmetric')
DwtCoeffLen(n, filter_len) == (n + filter_len - 1) \div 2

\* (variant: two samples fewer)
IdwtLenShort(n, filter_len) == 2 * n - filter_len

\* length of pywt.idwt(a, d) for coefficient arrays of length n
IdwtLen(n, filter_len) == 2 * n - filter_len + 2

\* pywt.dwt_max_level(n, filter_len): the largest k with
\* (filter_len - 1) * 2^k <= n, 0 when there is none.  wavedec and
\* wavedec2 compare the level asked for with it and only warn
\* ("Level value of ... is too high") when the level is larger
RECURSIVE DwtMaxLevel(_, _)
DwtMaxLevel(n, filter_len) ==
  IF n < 2 * (filter_len - 1) THEN 0 ELSE 1 + DwtMaxLevel(n \div 2, filter_len)

\* pywt.wavedec: the lengths of [cA_n, cD_n, ..., cD_1]; `level` dwt steps,
\* each on the approximation of the one before ([n] alone for level 0)
RECURSIVE WavedecLens(_, _, _)
WavedecLens(n, filter_len, level) ==
  IF level = 0 THEN << n >>
  ELSE LET c == DwtCoeffLen(n, filter_len)
       IN WavedecLens(c, filter_len, level - 1) \o << c >>

\* pywt.waverec: the length of the reconstruction from coefficient arrays
\* of these lengths; an approximation one longer than the next detail
\* array loses its last sample before idwt
RECURSIVE WaverecLenFrom(_, _, _)
WaverecLenFrom(a, ds, filter_len) ==
  IF ds = << >> THEN a
  ELSE WaverecLenFrom(IdwtLen(IF a = Head(ds) + 1 THEN Head(ds) ELSE a, filter_len),
                      Tail(ds), filter_len)

WaverecLen(lens, filter_len) == WaverecLenFrom(Head(lens), Tail(lens), filter_len)

\* (variant: the reconstruction is returned as it is, never cropped)
CropLenNoCrop(len, n) == len

\* len(x[:n]) for an array of length len
CropLen(len, n) == Min2(len, n)

\* ------------------------------------------------- pywt (Haar, one level)
\* The Haar filters are (1, 1) / sqrt(2) and (1, -1) / sqrt(2).  A
\* coefficient of a 1D transform is kept as the integer c that stands for
\* c / (UNIT * sqrt(2)); of a 2D transform, for c / (2 * UNIT).
Sign(c) == IF c > 0 THEN 1 ELSE IF c < 0 THEN 0 - 1 ELSE 0

\* the sample pairs dwt works on: mode 'symmetric' repeats the last sample
\* of an odd-length array
HaarPair(x, k) == << x[2 * k - 1], IF 2 * k <= Len(x) THEN x[2 * k] ELSE x[Len(x)] >>

\* pywt.dwt(x, 'haar'): cA and cD
HaarA(x) == [k \in 1..DwtCoeffLen(Len(x), 2) |-> HaarPair(x, k)[1] + HaarPair(x, k)[2]]
HaarD(x) == [k \in 1..DwtCoeffLen(Len(x), 2) |-> HaarPair(x, k)[1] - HaarPair(x, k)[2]]

\* pywt.idwt(cA, cD, 'haar'): x[2k] = (a + d) / sqrt(2), x[2k+1] = (a - d) / sqrt(2);
\* a nan coefficient makes both samples nan
HaarInv(a, d) ==
  [q \in 1..IdwtLen(Len(a), 2) |->
     LET k == (q + 1) \div 2
     IN IF a[k] = NaN \/ d[k] = NaN THEN NaN
        ELSE IF q % 2 = 1 THEN (a[k] + d[k]) \div 2 ELSE (a[k] - d[k]) \div 2]

\* pywt.threshold(c, value, mode) for one coefficient.
\* soft: c * clip(1 - value / |c|, min=0); value / 0 is inf (clipped to a
\* factor 0) but 0 / 0 is nan, which clip and the product keep.
\* hard: np.where(|c| < value, 0, c)
PywtThreshold(c, value, mode) ==
  IF mode = "soft"
    THEN IF c = 0 /\ value = 0 THEN NaN
         ELSE IF Abs(c) > value THEN Sign(c) * (Abs(c) - value) ELSE 0
    ELSE IF Abs(c) < value THEN 0 ELSE c

\* twice np.median(s): the middle element, or the mean of the two middle
\* elements of an even number
Median2(s) ==
  IF Len(s) % 2 = 1 THEN 2 * Sort(s)[(Len(s) + 1) \div 2]
  ELSE Sort(s)[Len(s) \div 2] + Sort(s)[(Len(s) \div 2) + 1]

\* np.sqrt(2 * np.log(n)) / 0.6745 in hundredths, n = 1..6
VisuTab == << 0, 175, 220, 247, 266, 281 >>

\* sigma * sigma_multiplier * np.sqrt(2 * np.log(n)) with
\* sigma = np.median(np.abs(detail)) / 0.6745, in the units of detail
UniversalThreshold(detail, sigma_multiplier, n) ==
  (Median2([k \in 1..Len(detail) |-> Abs(detail[k])]) * sigma_multiplier * VisuTab[n])
    \div 200

\* ------------------------------------------------------ calls and results
\* An optional value (a parameter whose default is None) is << >> for None
\* and << x >> for the value x.  Keyword arguments are a record.
EmptyKw == [k \in {} |-> 0]

HasKey(kw, k) == k \in DOMAIN kw

\* the argument bound to parameter k: the value given, None when not given
Arg(kw, k) == IF HasKey(kw, k) THEN << kw[k] >> ELSE << >>

\* "x if x is not None else dflt"
OrElse(opt, dflt) == IF opt # << >> THEN opt[1] ELSE dflt

\* what is known of the samples of a wavelet reconstruction: the arguments
\* they are computed from and, where the transform is evaluated (Haar,
\* one level), the detail coefficients, the threshold and the detail
\* coefficients after shrinkage
NoSym ==
  [wavelet |-> "", level |-> 0, threshold_mode |-> "", sigma_multiplier |-> 0,
   n |-> 0, of |-> << >>, detail |-> << >>, threshold |-> 0, shrunk |-> << >>,
   coeffs |-> << >>, sigma_from |-> 0, coeffs_thresh |-> << >>, rec_shape |-> << >>]

\* a call that returns the array `out`, held in buffer `buf` ("input": the
\* caller's own array object, "new": an array allocated by the call); win
\* is the window length applied along each axis
Returned(out, buf, win, sym) ==
  [status |-> "ok", out |-> out, buf |-> buf, win |-> win, sym |-> sym]

\* a call that raises the exception exc
Raised(exc) ==
  [status |-> exc, out |-> NoArray, buf |-> "none", win |-> << >>, sym |-> NoSym]

NoCall == Raised("none")

\* the outcome of a method call: what it returns or raises, the instance
\* and the caller's array as the call leaves them
Outcome(ret, self, data) == [ret |-> ret, self |-> self, data |-> data]

\* np.asarray(data, dtype=np.float64) on the caller's array, which is a
\* float64 ndarray (what the loader and the noise generators produce):
\* no copy is made, the local `data` is the caller's own object
AsArrayBuf == "input"

NoInst == [kind |-> "none", cfg |-> EmptyKw]

\* binding of Cls(**kw) to a signature with these parameters: a keyword
\* that is no parameter is a TypeError
BindsTo(kw, params) == DOMAIN kw \subseteq params

\* the value parameter k is bound to: the keyword given, else its default
Bound(kw, k, dflt) == IF HasKey(kw, k) THEN kw[k] ELSE dflt

Constructed(self) == [status |-> "ok", self |-> self]
NotConstructed(exc) == [status |-> exc, self |-> NoInst]

\* ---------------------------------------------------------- GaussianFilter
GaussianParams == {"sigma", "mode", "cval", "sigma_raw", "sigma_col", "size"}

\* GaussianFilter.__init__(sigma=1.0, mode='reflect', cval=0.0,
\*                         sigma_raw=None, sigma_col=None, size=None)
GaussianFilterInit(kw) ==
  IF ~BindsTo(kw, GaussianParams) THEN NotConstructed("TypeError")
  ELSE Constructed(
         [kind |-> "gaussian",
          cfg |-> [sigma |-> Bound(kw, "sigma", 1),
                   mode |-> Bound(kw, "mode", "reflect"),
                   cval |-> Bound(kw, "cval", 0),
                   sigma_raw |-> Arg(kw, "sigma_raw"),
                   sigma_col |-> Arg(kw, "sigma_col"),
                   size |-> Arg(kw, "size")]])

\* kernel length gaussian_filter applies along each axis (1: axis skipped)
GaussianWin(m, sigma) ==
  [a \in 1..NDim(m) |-> IF sigma > 0 THEN 2 * GaussianRadius(sigma) + 1 ELSE 1]

\* GaussianFilter.denoise(data, sigma=None)
GaussianDenoise(self, data, ov) ==
  LET sigma == OrElse(Arg(ov, "sigma"), self.cfg.sigma)
  IN Outcome(Returned(GaussianFilterND(data, sigma, self.cfg.mode,
                                       self.cfg.cval * UNIT),
                      "new", GaussianWin(data, sigma), NoSym),
             self, data)

\* (variant: both passes are made whatever the sigmas are; gaussian_filter1d
\* divides by sigma * sigma when it builds its kernel)
GaussianApplySeparableUnguarded(self, data, ov) ==
  LET sigma_row == OrElse(Arg(ov, "sigma_row"), self.cfg.sigma)
      sigma_col == OrElse(Arg(ov, "sigma_col"), self.cfg.sigma)
  IN IF NDim(data) < 2 THEN Outcome(Raised("AxisError"), self, data)
     ELSE IF sigma_row <= 0 \/ sigma_col <= 0
       THEN Outcome(Raised("ZeroDivisionError"), self, data)
     ELSE Outcome(Returned(GaussianFilter1D(
                             GaussianFilter1D(data, sigma_row, 2, self.cfg.mode,
                                              self.cfg.cval * UNIT),
                             sigma_col, 1, self.cfg.mode, self.cfg.cval * UNIT),
                           "new",
                           [a \in 1..NDim(data) |->
                              IF a = 1 THEN GaussianWin(data, sigma_col)[1]
                              ELSE IF a = 2 THEN GaussianWin(data, sigma_row)[1]
                              ELSE 1],
                           NoSym),
                  self, data)

\* GaussianFilter.apply_separable_filter(data, sigma_row=None, sigma_col=None):
\* rows (axis=1) when sigma_row > 0, else a copy; then columns (axis=0)
\* when sigma_col > 0, else that array itself
GaussianApplySeparable(self, data, ov) ==
  LET sigma_row == OrElse(Arg(ov, "sigma_row"), self.cfg.sigma)
      sigma_col == OrElse(Arg(ov, "sigma_col"), self.cfg.sigma)
      temp_data ==
        IF sigma_row > 0
          THEN GaussianFilter1D(data, sigma_row, 2, self.cfg.mode, self.cfg.cval * UNIT)
          ELSE data
      denoised_data ==
        IF sigma_col > 0
          THEN GaussianFilter1D(temp_data, sigma_col, 1, self.cfg.mode,
                                self.cfg.cval * UNIT)
          ELSE temp_data
      \* gaussian_filter1d allocates its output; data.copy() is a new array
      temp_buf == IF sigma_row > 0 THEN "new" ELSE "new"
      denoised_buf == IF sigma_col > 0 THEN "new" ELSE temp_buf
  IN IF sigma_row > 0 /\ NDim(data) < 2
       THEN Outcome(Raised("AxisError"), self, data)
       ELSE Outcome(Returned(denoised_data, denoised_buf,
                             [a \in 1..NDim(data) |->
                                IF a = 1 THEN GaussianWin(data, sigma_col)[1]
                                ELSE IF a = 2 THEN GaussianWin(data, sigma_row)[1]
                                ELSE 1],
                             NoSym),
                    self, data)

\* ----------------------------------------------------- MovingAverageFilter
MovingAverageParams == {"window_size", "axis", "mode"}

\* MovingAverageFilter.__init__(window_size=3, axis=None, mode='reflect')
MovingAverageFilterInit(kw) ==
  IF ~BindsTo(kw, MovingAverageParams) THEN NotConstructed("TypeError")
  ELSE Constructed(
         [kind |-> "moving_average",
          cfg |-> [window_size |-> Bound(kw, "window_size", 3),
                   axis |-> Arg(kw, "axis"),
                   mode |-> Bound(kw, "mode", "reflect")]])

\* MovingAverageFilter.denoise(data, window_size=None, axis=None) for an
\* integer window_size: uniform_filter over all axes when axis is None,
\* uniform_filter1d along the (0-based) axis otherwise
MovingAverageDenoise(self, data, ov) ==
  LET window_size == OrElse(Arg(ov, "window_size"), self.cfg.window_size)
      axis == IF Arg(ov, "axis") # << >> THEN Arg(ov, "axis") ELSE self.cfg.axis
  IN IF axis = << >>
       THEN Outcome(Returned(UniformFilterND(data, NormalizeSize(data, window_size),
                                             self.cfg.mode),
                             "new", NormalizeSize(data, window_size), NoSym),
                    self, data)
       ELSE IF axis[1] >= NDim(data)
         THEN Outcome(Raised("AxisError"), self, data)
         ELSE Outcome(Returned(UniformFilter1D(data, window_size, axis[1] + 1,
                                               self.cfg.mode),
                               "new",
                               [a \in 1..NDim(data) |->
                                  IF a = axis[1] + 1 THEN window_size ELSE 1],
                               NoSym),
                      self, data)

\* MovingAverageFilter.apply_directional_filter(data, time_window=5,
\* distance_window=3): uniform_filter1d along axis 1, then along axis 0
MovingAverageApplyDirectional(self, data, ov) ==
  LET time_window == Bound(ov, "time_window", 5)
      distance_window == Bound(ov, "distance_window", 3)
  IN IF NDim(data) < 2 THEN Outcome(Raised("AxisError"), self, data)
     ELSE Outcome(Returned(UniformFilter1D(UniformFilter1D(data, distance_window, 2,
                                                           self.cfg.mode),
                                           time_window, 1, self.cfg.mode),
                           "new",
                           [a \in 1..NDim(data) |->
                              IF a = 1 THEN time_window
                              ELSE IF a = 2 THEN distance_window ELSE 1],
                           NoSym),
                  self, data)

\* ------------------------------------------------------------ MedianFilter
MedianParams == {"size", "mode"}

\* (variant: the constructor keeps the default mode whatever it is given)
MedianFilterInitDefaultMode(kw) ==
  IF ~BindsTo(kw, MedianParams) THEN NotConstructed("TypeError")
  ELSE Constructed(
         [kind |-> "median",
          cfg |-> [size |-> Bound(kw, "size", 3), mode |-> "reflect"]])

\* MedianFilter.__init__(size=3, mode='reflect')
MedianFilterInit(kw) ==
  IF ~BindsTo(kw, MedianParams) THEN NotConstructed("TypeError")
  ELSE Constructed(
         [kind |-> "median",
          cfg |-> [size |-> Bound(kw, "size", 3),
                   mode |-> Bound(kw, "mode", "reflect")]])

\* MedianFilter.denoise(data, size=None)
MedianDenoise(self, data, ov) ==
  LET size == OrElse(Arg(ov, "size"), self.cfg.size)
  IN Outcome(Returned(MedianFilterND(data, NormalizeSize(data, size), self.cfg.mode),
                      "new", NormalizeSize(data, size), NoSym),
             self, data)

\* MedianFilter.apply_directional_median_filter(data, size_time=3,
\* size_distance=3): size=(1, size_distance), then size=(size_time, 1);
\* a size tuple whose length is not the rank of the input is refused
MedianApplyDirectional(self, data, ov) ==
  LET size_time == Bound(ov, "size_time", 3)
      size_distance == Bound(ov, "size_distance", 3)
  IN IF NDim(data) # 2 THEN Outcome(Raised("RuntimeError"), self, data)
     ELSE Outcome(Returned(MedianFilterND(MedianFilterND(data, << 1, size_distance >>,
                                                         self.cfg.mode),
                                          << size_time, 1 >>, self.cfg.mode),
                           "new", << size_time, size_distance >>, NoSym),
                  self, data)

\* --------------------------------------------------- BilateralFilter class
BilateralParams == {"spatial_sigma", "intensity_sigma", "window_size"}

\* BilateralFilter.__init__(spatial_sigma=1.0, intensity_sigma=10.0,
\*                          window_size=5)
BilateralFilterInit(kw) ==
  IF ~BindsTo(kw, BilateralParams) THEN NotConstructed("TypeError")
  ELSE Constructed(
         [kind |-> "bilateral",
          cfg |-> [spatial_sigma |-> Bound(kw, "spatial_sigma", 1),
                   intensity_sigma |-> Bound(kw, "intensity_sigma", 10),
                   window_size |-> Bound(kw, "window_size", 5)]])

\* (variant: denoise stores the window size it was called with)
BilateralDenoiseStoring(self, data, ov) ==
  LET spatial_sigma == OrElse(Arg(ov, "spatial_sigma"), self.cfg.spatial_sigma)
      intensity_sigma == OrElse(Arg(ov, "intensity_sigma"), self.cfg.intensity_sigma)
      window_size == OrElse(Arg(ov, "window_size"), self.cfg.window_size)
      applied == Len(ComputeSpatialWeights1D(OddWindowSize(window_size), spatial_sigma))
      stored == [self EXCEPT !.cfg.window_size = window_size]
  IN IF NDim(data) = 1
       THEN Outcome(Returned([shape |-> data.shape,
                              v |-> BilateralFilter1D(data.v, spatial_sigma,
                                                      intensity_sigma, window_size)],
                             "new", << applied >>, NoSym),
                    stored, data)
     ELSE IF NDim(data) = 2
       THEN Outcome(Returned(BilateralFilter2D(data, spatial_sigma, intensity_sigma,
                                               window_size),
                             "new", << applied, applied >>, NoSym),
                    stored, data)
     ELSE Outcome(Raised("ValueError"), stored, data)

\* BilateralFilter.denoise(data, spatial_sigma=None, intensity_sigma=None,
\*                         window_size=None)
BilateralDenoise(self, data, ov) ==
  LET spatial_sigma == OrElse(Arg(ov, "spatial_sigma"), self.cfg.spatial_sigma)
      intensity_sigma == OrElse(Arg(ov, "intensity_sigma"), self.cfg.intensity_sigma)
      window_size == OrElse(Arg(ov, "window_size"), self.cfg.window_size)
      applied == Len(ComputeSpatialWeights1D(OddWindowSize(window_size), spatial_sigma))
  IN IF NDim(data) = 1
       THEN Outcome(Returned([shape |-> data.shape,
                              v |-> BilateralFilter1D(data.v, spatial_sigma,
                                                      intensity_sigma, window_size)],
                             "new", << applied >>, NoSym),
                    self, data)
     ELSE IF NDim(data) = 2
       THEN Outcome(Returned(BilateralFilter2D(data, spatial_sigma, intensity_sigma,
                                               window_size),
                             "new", << applied, applied >>, NoSym),
                    self, data)
     ELSE Outcome(Raised("ValueError"), self, data)

\* (variant: the blurred samples are weighted by intensity as well)
BilateralApplyFastWeighted(self, data, ov) ==
  LET spatial_sigma == OrElse(Arg(ov, "spatial_sigma"), self.cfg.spatial_sigma)
      intensity_sigma == OrElse(Arg(ov, "intensity_sigma"), self.cfg.intensity_sigma)
      blurred == GaussianFilterND(data, spatial_sigma, "reflect", 0)
  IN Outcome(Returned([shape |-> data.shape,
                       v |-> [q \in 1..Size(data) |->
                                WeightedOrCenter(
                                  << data.v[q], blurred.v[q] >>,
                                  IntensityWeights(<< data.v[q], blurred.v[q] >>,
                                                   data.v[q], intensity_sigma),
                                  data.v[q])]],
                      "new", GaussianWin(data, spatial_sigma), NoSym),
             self, data)

\* BilateralFilter.apply_fast_bilateral_filter(data, spatial_sigma=None,
\* intensity_sigma=None): ndimage.gaussian_filter(data, sigma=spatial_sigma)
\* with the library's mode 'reflect'
BilateralApplyFast(self, data, ov) ==
  LET spatial_sigma == OrElse(Arg(ov, "spatial_sigma"), self.cfg.spatial_sigma)
      intensity_sigma == OrElse(Arg(ov, "intensity_sigma"), self.cfg.intensity_sigma)
  IN Outcome(Returned(GaussianFilterND(data, spatial_sigma, "reflect", 0),
                      "new", GaussianWin(data, spatial_sigma), NoSym),
             self, data)

\* row i (0-based) of a 2D array, and column j
RowOf(m, i) == [c \in 1..m.shape[2] |-> m.v[i * m.shape[2] + c]]
ColOf(m, j) == [r \in 1..m.shape[1] |-> m.v[(r - 1) * m.shape[2] + j + 1]]

\* BilateralFilter.apply_separable_bilateral_filter(data, spatial_sigma=None,
\* intensity_sigma=None) on a 1D or 2D array: _bilateral_filter_1d on every
\* row, then on every column of that, with self.window_size; data[i, :] of
\* a 1D array is an IndexError
BilateralApplySeparable(self, data, ov) ==
  LET spatial_sigma == OrElse(Arg(ov, "spatial_sigma"), self.cfg.spatial_sigma)
      intensity_sigma == OrElse(Arg(ov, "intensity_sigma"), self.cfg.intensity_sigma)
      rows == data.shape[1]
      cols == data.shape[2]
      temp_rows ==
        [i \in 1..rows |->
           BilateralFilter1D(RowOf(data, i - 1), spatial_sigma, intensity_sigma,
                             self.cfg.window_size)]
      temp_data == [shape |-> data.shape, v |-> Concat(temp_rows)]
      filtered_cols ==
        [j \in 1..cols |->
           BilateralFilter1D(ColOf(temp_data, j - 1), spatial_sigma, intensity_sigma,
                             self.cfg.window_size)]
      filtered_data ==
        [shape |-> data.shape,
         v |-> [q \in 1..Size(data) |->
                  filtered_cols[((q - 1) % cols) + 1][((q - 1) \div cols) + 1]]]
      applied == OddWindowSize(self.cfg.window_size)
  IN IF NDim(data) = 1 THEN Outcome(Raised("IndexError"), self, data)
     ELSE Outcome(Returned(filtered_data, "new", << applied, applied >>, NoSym),
                  self, data)

\* -------------------------------------------------- WaveletDenoising class
WaveletParams == {"wavelet", "level", "threshold_mode", "sigma_multiplier"}

\* (variant: the constructor does not look at PYWT_AVAILABLE)
WaveletDenoisingInitUnchecked(kw) ==
  IF ~BindsTo(kw, WaveletParams) THEN NotConstructed("TypeError")
  ELSE Constructed(
         [kind |-> "wavelet",
          cfg |-> [wavelet |-> Bound(kw, "wavelet", "db4"),
                   level |-> Bound(kw, "level", 4),
                   threshold_mode |-> Bound(kw, "threshold_mode", "soft"),
                   sigma_multiplier |-> Bound(kw, "sigma_multiplier", 1)]])

\* WaveletDenoising.__init__(wavelet='db4', level=4, threshold_mode='soft',
\*                           sigma_multiplier=1.0)
WaveletDenoisingInit(kw) ==
  IF ~BindsTo(kw, WaveletParams) THEN NotConstructed("TypeError")
  ELSE IF ~PYWT_AVAILABLE THEN NotConstructed("ImportError")
  ELSE Constructed(
         [kind |-> "wavelet",
          cfg |-> [wavelet |-> Bound(kw, "wavelet", "db4"),
                   level |-> Bound(kw, "level", 4),
                   threshold_mode |-> Bound(kw, "threshold_mode", "soft"),
                   sigma_multiplier |-> Bound(kw, "sigma_multiplier", 1)]])

\* the list pywt.wavedec / pywt.wavedec2 returns, [cA_n, cD_n, ..., cD_1]
\* (in 2D every cD_k is the tuple (cH_k, cV_k, cD_k) of arrays of one
\* shape): the band, the level and the shape of every entry
WavedecTree(shape, filter_len, level) ==
  [k \in 1..(level + 1) |->
     [band |-> IF k = 1 THEN "a" ELSE "d",
      level |-> IF k = 1 THEN level ELSE level - k + 2,
      shape |-> [a \in 1..Len(shape) |-> WavedecLens(shape[a], filter_len, level)[k]]]]

\* _estimate_sigma(coeffs): the (1-based) place in coeffs of the entry the
\* median is taken of, coeffs[-1]; 0 when len(coeffs) <= 1 (sigma = 1.0)
EstimateSigmaFrom(coeffs) == IF Len(coeffs) > 1 THEN Len(coeffs) ELSE 0

\* lines 127-133 of _denoise_2d: details = coeffs[1]; 0 when
\* len(coeffs) <= 1 (threshold = 0)
Details2DFrom(coeffs) == IF Len(coeffs) > 1 THEN 2 ELSE 0

\* (variant: the loop starts at 0 and the approximation is shrunk too)
CoeffsThreshFromZero(coeffs) ==
  [k \in 1..Len(coeffs) |->
     [band |-> coeffs[k].band, level |-> coeffs[k].level, shape |-> coeffs[k].shape,
      shrunk |-> TRUE]]

\* coeffs_thresh = [coeffs[0]] and, for i in range(1, len(coeffs)), the
\* entry coeffs[i] after pywt.threshold (which keeps the shape)
CoeffsThresh(coeffs) ==
  [k \in 1..Len(coeffs) |->
     [band |-> coeffs[k].band, level |-> coeffs[k].level, shape |-> coeffs[k].shape,
      shrunk |-> k >= 2]]

\* the shape of pywt.waverec / pywt.waverec2 of a list of these shapes
WaverecShape(tree, filter_len) ==
  [a \in 1..Len(tree[1].shape) |->
     WaverecLen([k \in 1..Len(tree) |-> tree[k].shape[a]], filter_len)]

\* what the samples of a reconstruction are computed from
WaveletSym(self, data, wavelet, level, threshold_mode) ==
  [wavelet |-> wavelet, level |-> level, threshold_mode |-> threshold_mode,
   sigma_multiplier |-> self.cfg.sigma_multiplier, n |-> Size(data), of |-> data.v,
   detail |-> << >>, threshold |-> 0, shrunk |-> << >>,
   coeffs |-> WavedecTree(data.shape, DecLen(wavelet), level),
   sigma_from |-> 0, coeffs_thresh |-> << >>, rec_shape |-> << >>]

\* the same after the steps of _denoise_1d / _denoise_2d: where sigma was
\* taken from, the list given to the reconstruction and its shape
DenoiseSym(self, data, wavelet, level, threshold_mode, sigma_from) ==
  LET coeffs == WavedecTree(data.shape, DecLen(wavelet), level)
  IN [WaveletSym(self, data, wavelet, level, threshold_mode) EXCEPT
        !.sigma_from = sigma_from,
        !.coeffs_thresh = CoeffsThresh(coeffs),
        !.rec_shape = WaverecShape(CoeffsThresh(coeffs), DecLen(wavelet))]

\* float('-inf') as a sample, and np.finfo(np.float64).max
NegInf == 0 - PosInf - 1
FloatMax == 900000

IsFinite(x) == x \notin {NaN, PosInf, NegInf}

\* np.nan_to_num(data) with its defaults: a new array with nan replaced
\* by 0.0, +inf by the largest finite float and -inf by the most negative
NanToNum(m) ==
  [shape |-> m.shape,
   v |-> [k \in 1..Len(m.v) |->
            IF m.v[k] = NaN THEN 0
            ELSE IF m.v[k] = PosInf THEN FloatMax
            ELSE IF m.v[k] = NegInf THEN 0 - FloatMax
            ELSE m.v[k]]]

\* the transforms evaluated sample by sample: Haar, one level, on an array
\* of at most Len(VisuTab) samples of ordinary size
Evaluated(data, wavelet, level) ==
  /\ wavelet = "haar" /\ level = 1 /\ Size(data) <= Len(VisuTab)
  /\ \A k \in 1..Len(data.v) : IsFinite(data.v[k]) /\ Abs(data.v[k]) < FloatMax

\* lines 85-102 of _denoise_1d for the Haar wavelet and level 1:
\* coeffs = [cA, cD], sigma from coeffs[-1], the threshold, cD shrunk, waverec
HaarDenoise1D(x, mode, sigma_multiplier) ==
  LET detail == HaarD(x)
      threshold == UniversalThreshold(detail, sigma_multiplier, Len(x))
      shrunk == [k \in 1..Len(detail) |-> PywtThreshold(detail[k], threshold, mode)]
  IN [detail |-> detail, threshold |-> threshold, shrunk |-> shrunk,
      rec |-> HaarInv(HaarA(x), shrunk)]

\* _denoise_1d: wavedec, threshold of the detail arrays, waverec, and the
\* crop "if len(denoised_data) != len(data): denoised_data[:len(data)]".
\* With level 0 wavedec gives [data], coeffs_thresh is [coeffs[0]] and
\* waverec returns coeffs[0]: the array it was given.
WaveletDenoise1D(self, data, buf, wavelet, level, threshold_mode) ==
  LET n == data.shape[1]
      lens == WavedecLens(n, DecLen(wavelet), level)
      rec == WaverecLen(lens, DecLen(wavelet))
      out_len == IF rec # n THEN CropLen(rec, n) ELSE rec
      mode == IF threshold_mode = "soft" THEN "soft" ELSE "hard"
      haar == HaarDenoise1D(data.v, mode, self.cfg.sigma_multiplier)
      sym == DenoiseSym(self, data, wavelet, level, mode,
                        EstimateSigmaFrom(WavedecTree(data.shape, DecLen(wavelet),
                                                      level)))
  IN IF Len(lens) = 1
       THEN Returned([shape |-> << out_len >>, v |-> data.v], buf, << >>, NoSym)
     ELSE IF Evaluated(data, wavelet, level)
       THEN Returned([shape |-> << out_len >>, v |-> SubSeq(haar.rec, 1, out_len)],
                     "new", << >>,
                     [sym EXCEPT
                        !.detail = haar.detail, !.threshold = haar.threshold,
                        !.shrunk = haar.shrunk])
       ELSE Returned([shape |-> << out_len >>, v |-> << >>], "new", << >>, sym)

\* a 2D array as the sequence of its rows, and back
Rows(m) ==
  [i \in 1..m.shape[1] |-> [j \in 1..m.shape[2] |-> m.v[(i - 1) * m.shape[2] + j]]]

Transpose(rows) ==
  IF rows = << >> THEN << >>
  ELSE [j \in 1..Len(rows[1]) |-> [i \in 1..Len(rows) |-> rows[i][j]]]

\* one band ("a": approximation, "d": detail) of the dwt along axis 1
\* (every row) and along axis 0 (every column)
AlongRows(band, rows) ==
  [i \in 1..Len(rows) |-> IF band = "a" THEN HaarA(rows[i]) ELSE HaarD(rows[i])]
AlongCols(band, rows) == Transpose(AlongRows(band, Transpose(rows)))

\* idwt of the pairs of columns of two coefficient matrices
InvAlongCols(a, d) ==
  Transpose([j \in 1..Len(Transpose(a)) |-> HaarInv(Transpose(a)[j], Transpose(d)[j])])

\* lines 125-143 of _denoise_2d for the Haar wavelet and level 1:
\* coeffs = [cA, (cH, cV, cD)], sigma from the three detail arrays of
\* coeffs[1], every detail coefficient shrunk with mode = threshold_mode,
\* waverec2
HaarDenoise2D(m, threshold_mode, sigma_multiplier) ==
  LET lo == AlongRows("a", Rows(m))
      hi == AlongRows("d", Rows(m))
      cA == AlongCols("a", lo)
      cH == AlongCols("d", lo)
      cV == AlongCols("a", hi)
      cD == AlongCols("d", hi)
      detail == Concat(cH) \o Concat(cV) \o Concat(cD)
      threshold == UniversalThreshold(detail, sigma_multiplier, Size(m))
      Shrink(c) ==
        [i \in 1..Len(c) |->
           [j \in 1..Len(c[i]) |-> PywtThreshold(c[i][j], threshold, threshold_mode)]]
      rec_lo == InvAlongCols(cA, Shrink(cH))
      rec_hi == InvAlongCols(Shrink(cV), Shrink(cD))
  IN [detail |-> detail, threshold |-> threshold,
      shrunk |-> Concat(Shrink(cH)) \o Concat(Shrink(cV)) \o Concat(Shrink(cD)),
      rec |-> [i \in 1..Len(rec_lo) |-> HaarInv(rec_lo[i], rec_hi[i])]]

\* the modes pywt.threshold knows; it raises ValueError for another one
PywtThresholdModes == {"soft", "hard", "garrote", "greater", "less"}

\* _denoise_2d: np.nan_to_num (a copy), wavedec2, threshold (the mode is
\* handed to pywt.threshold as it is), waverec2 and the crop
\* denoised[:rows, :cols]
WaveletDenoise2D(self, passed, buf, wavelet, level, threshold_mode) ==
  LET data == NanToNum(passed)
      out_shape ==
        [a \in 1..2 |->
           CropLen(WaverecLen(WavedecLens(data.shape[a], DecLen(wavelet), level),
                              DecLen(wavelet)),
                   data.shape[a])]
      haar == HaarDenoise2D(data, threshold_mode, self.cfg.sigma_multiplier)
      sym == DenoiseSym(self, data, wavelet, level, threshold_mode,
                        Details2DFrom(WavedecTree(data.shape, DecLen(wavelet), level)))
  IN IF level = 0
       THEN Returned([shape |-> out_shape, v |-> data.v], "new", << >>, NoSym)
     ELSE IF threshold_mode \notin PywtThresholdModes THEN Raised("ValueError")
     ELSE IF Evaluated(data, wavelet, level)
       THEN Returned([shape |-> out_shape,
                      v |-> Concat([i \in 1..out_shape[1] |->
                                      SubSeq(haar.rec[i], 1, out_shape[2])])],
                     "new", << >>,
                     [sym EXCEPT
                        !.detail = haar.detail, !.threshold = haar.threshold,
                        !.shrunk = haar.shrunk])
       ELSE Returned([shape |-> out_shape, v |-> << >>], "new", << >>, sym)

\* WaveletDenoising.denoise(data, wavelet=None, level=None,
\*                          threshold_mode=None)
WaveletDenoise(self, data, ov) ==
  LET wavelet == OrElse(Arg(ov, "wavelet"), self.cfg.wavelet)
      level == OrElse(Arg(ov, "level"), self.cfg.level)
      threshold_mode == OrElse(Arg(ov, "threshold_mode"), self.cfg.threshold_mode)
  IN IF ~PYWT_AVAILABLE THEN Outcome(Raised("ImportError"), self, data)
     ELSE IF NDim(data) = 1
       THEN Outcome(WaveletDenoise1D(self, data, AsArrayBuf, wavelet, level,
                                     threshold_mode),
                    self, data)
     ELSE IF NDim(data) = 2
       THEN Outcome(WaveletDenoise2D(self, data, AsArrayBuf, wavelet, level,
                                     threshold_mode),
                    self, data)
     ELSE Outcome(Raised("ValueError"), self, data)

\* (variant: the shrinkage mode is the one the instance is configured with)
WaveletApplyVisuShrinkConfigured(self, data, ov) ==
  LET wavelet == OrElse(Arg(ov, "wavelet"), self.cfg.wavelet)
      level == OrElse(Arg(ov, "level"), self.cfg.level)
  IN WaveletDenoise(self, data,
                    [wavelet |-> wavelet, level |-> level,
                     threshold_mode |-> self.cfg.threshold_mode])

\* WaveletDenoising.apply_visu_shrink(data, wavelet=None, level=None):
\* self.denoise(data, wavelet, level, 'soft')
WaveletApplyVisuShrink(self, data, ov) ==
  LET wavelet == OrElse(Arg(ov, "wavelet"), self.cfg.wavelet)
      level == OrElse(Arg(ov, "level"), self.cfg.level)
  IN WaveletDenoise(self, data,
                    [wavelet |-> wavelet, level |-> level, threshold_mode |-> "soft"])

\* WaveletDenoising.get_wavelet_coefficients(data, wavelet=None, level=None):
\* a list of coefficient arrays, known here by what it is computed from
WaveletGetCoefficients(self, data, ov) ==
  LET wavelet == OrElse(Arg(ov, "wavelet"), self.cfg.wavelet)
      level == OrElse(Arg(ov, "level"), self.cfg.level)
  IN IF ~PYWT_AVAILABLE THEN Outcome(Raised("ImportError"), self, data)
     ELSE IF NDim(data) \in {1, 2}
       THEN Outcome(Returned(NoArray, "new", << >>,
                             WaveletSym(self, data, wavelet, level, "")),
                    self, data)
     ELSE Outcome(Raised("ValueError"), self, data)

\* -------------------------------------------------------- DenoisingFactory
\* the strings the caller passes as denoiser_type
TypeNames ==
  {"gaussian", "moving_average", "uniform", "median", "wavelet", "bilateral",
   "Median", "fft"}

\* str.lower() on those strings
Lower(name) == IF name = "Median" THEN "median" ELSE name

NoMsg == [type |-> "", available |-> << >>]

\* the ValueError of the else branch: its message holds the lowered
\* denoiser_type and the list available_types
Unsupported(denoiser_type) ==
  [status |-> "ValueError", self |-> NoInst,
   msg |-> [type |-> denoiser_type,
            available |-> << "gaussian", "moving_average", "median" >>]]

Resolved(c) == [status |-> c.status, self |-> c.self, msg |-> NoMsg]

\* DenoisingFactory.create_denoiser(denoiser_type, **kwargs)
CreateDenoiser(name, kw) ==
  LET denoiser_type == Lower(name)
  IN IF denoiser_type = "gaussian" THEN Resolved(GaussianFilterInit(kw))
     ELSE IF denoiser_type = "moving_average" \/ denoiser_type = "uniform"
       THEN Resolved(MovingAverageFilterInit(kw))
     ELSE IF denoiser_type = "median" THEN Resolved(MedianFilterInit(kw))
     ELSE IF denoiser_type = "wavelet" THEN Resolved(WaveletDenoisingInit(kw))
     ELSE Unsupported(denoiser_type)

\* the classes denoising/__init__.py exports, by the kind of their instances
Components == {"gaussian", "moving_average", "median", "bilateral", "wavelet"}

\* Cls(**kw) for the class of this kind
ConstructClass(kind, kw) ==
  CASE kind = "gaussian" -> GaussianFilterInit(kw)
    [] kind = "moving_average" -> MovingAverageFilterInit(kw)
    [] kind = "median" -> MedianFilterInit(kw)
    [] kind = "bilateral" -> BilateralFilterInit(kw)
    [] kind = "wavelet" -> WaveletDenoisingInit(kw)

\* self.denoise(data, **ov) by the class of self
DenoiseOf(self, data, ov) ==
  CASE self.kind = "gaussian" -> GaussianDenoise(self, data, ov)
    [] self.kind = "moving_average" -> MovingAverageDenoise(self, data, ov)
    [] self.kind = "median" -> MedianDenoise(self, data, ov)
    [] self.kind = "bilateral" -> BilateralDenoise(self, data, ov)
    [] self.kind = "wavelet" -> WaveletDenoise(self, data, ov)

\* ---------------------------------------------------------- the metrics
\* float('inf')
Inf == [num |-> 1, den |-> 0]

\* original_data.max() - original_data.min()
DataRange(m) ==
  (CHOOSE x \in SeqRange(m.v) : \A y \in SeqRange(m.v) : y <= x)
    - (CHOOSE x \in SeqRange(m.v) : \A y \in SeqRange(m.v) : x <= y)

\* np.sum((original_data - processed_data) ** 2): the mse times the size
SumSqDiff(a, b) == SumSeq([i \in 1..Len(a.v) |-> (a.v[i] - b.v[i]) * (a.v[i] - b.v[i])])

\* a call that returns the number 10 * log10(ratio.num / ratio.den)
\* (float('inf') for Inf, -inf for a numerator of 0)
ReturnedDecibels(ratio) ==
  [status |-> "ok", out |-> NoArray, buf |-> "none", win |-> << >>, sym |-> NoSym,
   value |-> ratio]

\* (variant: the range is that of the processed data)
PSNRCalculateRangeOfProcessed(original_data, processed_data) ==
  IF original_data.shape # processed_data.shape THEN Raised("ValueError")
  ELSE IF SumSqDiff(original_data, processed_data) = 0 THEN ReturnedDecibels(Inf)
  ELSE ReturnedDecibels(
         [num |-> DataRange(processed_data) * DataRange(processed_data)
                    * Size(processed_data),
          den |-> SumSqDiff(original_data, processed_data)])

\* PSNRCalculator.calculate(original_data, processed_data):
\* 20 * log10(data_range / sqrt(mse)) = 10 * log10(data_range^2 * size / sum)
PSNRCalculate(original_data, processed_data) ==
  IF original_data.shape # processed_data.shape THEN Raised("ValueError")
  ELSE LET sum == SumSqDiff(original_data, processed_data)
           data_range == DataRange(original_data)
       IN IF sum = 0 THEN ReturnedDecibels(Inf)
          ELSE ReturnedDecibels([num |-> data_range * data_range * Size(original_data),
                                 den |-> sum])

\* ----------------------------------------------------------- the caller
\* keyword records the caller constructs a denoiser of each class with:
\* records the class takes, and records with a key it does not take
KwargsFor(kind) ==
  {EmptyKw, [bogus |-> 1]} \cup
  CASE kind = "gaussian" ->
         {[sigma |-> 0], [mode |-> "wrap"], [mode |-> "constant", cval |-> 1],
          [size |-> 2], [window_size |-> 2]}
    [] kind = "moving_average" ->
         {[window_size |-> 2], [window_size |-> 2, axis |-> 0], [mode |-> "nearest"],
          [size |-> 2]}
    [] kind = "median" ->
         {[size |-> 2], [size |-> 1], [mode |-> "constant"], [mode |-> "nearest"],
          [mode |-> "mirror"], [size |-> 2, mode |-> "wrap"], [sigma |-> 0]}
    [] kind = "bilateral" ->
         {[window_size |-> 2], [spatial_sigma |-> 2, intensity_sigma |-> 1],
          [mode |-> "wrap"]}
    [] kind = "wavelet" ->
         {[level |-> 0], [wavelet |-> "haar", level |-> 1],
          [wavelet |-> "haar", level |-> 1, sigma_multiplier |-> 0],
          [threshold_mode |-> "hard", sigma_multiplier |-> 0], [sigma |-> 0]}
    [] OTHER -> {[sigma |-> 0]}

\* the class a denoiser_type stands for in the caller's mind
KindOfName(name) ==
  CASE Lower(name) \in {"moving_average", "uniform"} -> "moving_average"
    [] Lower(name) \in {"gaussian", "median", "wavelet", "bilateral"} -> Lower(name)
    [] OTHER -> "none"

\* per-call overrides the caller passes to denoise, by the class
DenoiseOverrides(kind) ==
  CASE kind = "gaussian" -> {EmptyKw, [sigma |-> 0], [sigma |-> -1]}
    [] kind = "moving_average" -> {EmptyKw, [window_size |-> 2], [axis |-> 1]}
    [] kind = "median" -> {EmptyKw, [size |-> 2]}
    [] kind = "bilateral" ->
         {EmptyKw, [window_size |-> 2], [spatial_sigma |-> 2, intensity_sigma |-> 1],
          [intensity_sigma |-> 0], [spatial_sigma |-> 0],
          [intensity_sigma |-> PosInf]}
    [] kind = "wavelet" ->
         {EmptyKw, [level |-> 0], [wavelet |-> "haar", level |-> 1,
                                   threshold_mode |-> "hard"],
          [threshold_mode |-> "medium"]}

\* arguments the caller passes to the apply_* methods
ApplyArgs(op) ==
  CASE op = "apply_separable_filter" ->
         {EmptyKw, [sigma_row |-> 0, sigma_col |-> 0], [sigma_row |-> 0],
          [sigma_col |-> 0]}
    [] op = "apply_directional_filter" -> {EmptyKw, [time_window |-> 2]}
    [] op = "apply_directional_median_filter" -> {EmptyKw, [size_time |-> 2]}
    [] op = "apply_fast_bilateral_filter" -> {EmptyKw, [intensity_sigma |-> 1]}
    [] op = "apply_separable_bilateral_filter" -> {EmptyKw, [spatial_sigma |-> 2]}
    [] op = "apply_visu_shrink" ->
         {EmptyKw, [level |-> 0], [wavelet |-> "haar", level |-> 1]}
    [] op = "get_wavelet_coefficients" -> {EmptyKw, [level |-> 1]}

\* arrays with a sample that is not finite (a gap or an overflow in the
\* recording)
NonFiniteArrays ==
  {[shape |-> sh, v |-> [k \in 1..ProdSeq(sh) |-> IF k = 1 THEN x ELSE UNIT]] :
     sh \in {<< 2 >>, << 2, 2 >>}, x \in {NaN, PosInf, NegInf}}

\* the input arrays: 1D of length 1..MaxLen, 2D (2 x 2), and 3D (1 x 1 x 1)
Samples == {l * UNIT : l \in InputLevels}

ArraysOf(shape, samples) ==
  {[shape |-> shape, v |-> v] : v \in [1..ProdSeq(shape) -> samples]}

InputArrays ==
  (UNION {ArraysOf(<< n >>, Samples) : n \in 1..MaxLen})
    \cup ArraysOf(<< 2, 2 >>, Samples)
    \cup ArraysOf(<< 1, 1, 1 >>, Samples)

Done == [status |-> "ok", out |-> NoArray, buf |-> "none", win |-> << >>, sym |-> NoSym]

Called(op, name, kw, passed, ret, msg) ==
  [op |-> op, name |-> name, kw |-> kw, passed |-> passed, ret |-> ret, msg |-> msg]

Idle == Called("none", "", EmptyKw, NoArray, NoCall, NoMsg)

NotMade == [kind |-> "none", kw |-> EmptyKw]

Init ==
  /\ PYWT_AVAILABLE \in BOOLEAN
  /\ denoiser = NoInst
  /\ made = NotMade
  /\ noisy_data \in InputArrays
  /\ last = Idle

\* the caller gets another input array (before it resolves a denoiser)
SupplyInput ==
  /\ denoiser = NoInst /\ last = Idle
  /\ \E a \in InputArrays : noisy_data' = a
  /\ UNCHANGED << PYWT_AVAILABLE, denoiser, made, last >>

\* denoiser = DenoisingFactory.create_denoiser(name, **kw)
Create ==
  /\ denoiser = NoInst /\ last = Idle
  /\ \E name \in TypeNames : \E kw \in KwargsFor(KindOfName(name)) :
       LET c == CreateDenoiser(name, kw)
       IN /\ denoiser' = c.self
          /\ made' = IF c.status = "ok" THEN [kind |-> c.self.kind, kw |-> kw]
                     ELSE NotMade
          /\ last' = Called("create_denoiser", name, kw, NoArray,
                            IF c.status = "ok" THEN Done ELSE Raised(c.status), c.msg)
  /\ UNCHANGED << PYWT_AVAILABLE, noisy_data >>

\* denoiser = Cls(**kw), the class used directly
Construct ==
  /\ denoiser = NoInst /\ last = Idle
  /\ \E kind \in Components : \E kw \in KwargsFor(kind) :
       LET c == ConstructClass(kind, kw)
       IN /\ denoiser' = c.self
          /\ made' = IF c.status = "ok" THEN [kind |-> kind, kw |-> kw] ELSE NotMade
          /\ last' = Called("construct", kind, kw, NoArray,
                            IF c.status = "ok" THEN Done ELSE Raised(c.status), NoMsg)
  /\ UNCHANGED << PYWT_AVAILABLE, noisy_data >>

\* the effect of a method call on the caller's state; the caller makes
\* its call on the denoiser it has just resolved, as main.py does
\* (on_denoiser_set, then perform_denoising), and a later call on the same
\* denoiser and array returns what the first one did
Method(op, ov, o) ==
  /\ last.op \in {"construct", "create_denoiser"}
  /\ denoiser' = o.self
  /\ noisy_data' = o.data
  /\ last' = Called(op, denoiser.kind, ov, noisy_data, o.ret, NoMsg)
  /\ UNCHANGED << PYWT_AVAILABLE, made >>

\* denoiser.denoise(noisy_data, **ov)
Denoise ==
  /\ denoiser # NoInst
  /\ \E ov \in DenoiseOverrides(denoiser.kind) :
       Method("denoise", ov, DenoiseOf(denoiser, noisy_data, ov))

\* denoiser.denoise(data) of a wavelet denoiser just made, on an array
\* with a non-finite sample
DenoiseNonFinite ==
  /\ denoiser.kind = "wavelet"
  /\ last.op \in {"construct", "create_denoiser"}
  /\ \E data \in NonFiniteArrays :
       LET o == WaveletDenoise(denoiser, data, EmptyKw)
       IN /\ denoiser' = o.self
          /\ last' = Called("denoise", "wavelet", EmptyKw, data, o.ret, NoMsg)
  /\ UNCHANGED << PYWT_AVAILABLE, made, noisy_data >>

ApplySeparableFilter ==
  /\ denoiser.kind = "gaussian"
  /\ \E ov \in ApplyArgs("apply_separable_filter") :
       Method("apply_separable_filter", ov,
              GaussianApplySeparable(denoiser, noisy_data, ov))

ApplyDirectionalFilter ==
  /\ denoiser.kind = "moving_average"
  /\ \E ov \in ApplyArgs("apply_directional_filter") :
       Method("apply_directional_filter", ov,
              MovingAverageApplyDirectional(denoiser, noisy_data, ov))

ApplyDirectionalMedianFilter ==
  /\ denoiser.kind = "median"
  /\ \E ov \in ApplyArgs("apply_directional_median_filter") :
       Method("apply_directional_median_filter", ov,
              MedianApplyDirectional(denoiser, noisy_data, ov))

ApplyFastBilateralFilter ==
  /\ denoiser.kind = "bilateral"
  /\ \E ov \in ApplyArgs("apply_fast_bilateral_filter") :
       Method("apply_fast_bilateral_filter", ov,
              BilateralApplyFast(denoiser, noisy_data, ov))

\* (the caller gives this method 1D and 2D arrays only)
ApplySeparableBilateralFilter ==
  /\ denoiser.kind = "bilateral"
  /\ NDim(noisy_data) \in {1, 2}
  /\ \E ov \in ApplyArgs("apply_separable_bilateral_filter") :
       Method("apply_separable_bilateral_filter", ov,
              BilateralApplySeparable(denoiser, noisy_data, ov))

ApplyVisuShrink ==
  /\ denoiser.kind = "wavelet"
  /\ \E ov \in ApplyArgs("apply_visu_shrink") :
       Method("apply_visu_shrink", ov,
              WaveletApplyVisuShrink(denoiser, noisy_data, ov))

GetWaveletCoefficients ==
  /\ denoiser.kind = "wavelet"
  /\ \E ov \in ApplyArgs("get_wavelet_coefficients") :
       Method("get_wavelet_coefficients", ov,
              WaveletGetCoefficients(denoiser, noisy_data, ov))

\* psnr_calc.calculate(original, processed) on the caller's array and
\* another array
CalculatePSNR ==
  /\ denoiser = NoInst /\ last = Idle
  /\ \E processed_data \in InputArrays :
       last' = Called("calculate", "psnr", [processed_data |-> processed_data],
                      noisy_data, PSNRCalculate(noisy_data, processed_data), NoMsg)
  /\ UNCHANGED << PYWT_AVAILABLE, denoiser, made, noisy_data >>

\* the item data of combo_method in the step-3 widget
ComboMethods ==
  {"gaussian_filter", "moving_average_filter", "median_filter", "wavelet_denoising",
   "bilateral_filter"}

\* DenoisingMethodWidget.get_denoising_parameters() with the widgets at
\* their initial values
GetDenoisingParameters(method) ==
  [method |-> method,
   parameters |->
     CASE method = "gaussian_filter" -> [sigma |-> 1]
       [] method = "moving_average_filter" -> [window_size |-> 5]
       [] method = "median_filter" -> [size |-> 3]
       [] method = "wavelet_denoising" ->
            [wavelet |-> "db4", level |-> 3, threshold_mode |-> "soft"]
       [] method = "bilateral_filter" ->
            [spatial_sigma |-> 10, intensity_sigma |-> 20, window_size |-> 10]]

\* MainController.perform_denoising(params): params['method'],
\* params['params'], create_denoiser, denoise(self.noisy_data)
PerformDenoising(params, data) ==
  IF ~HasKey(params, "method") \/ ~HasKey(params, "params") THEN Raised("KeyError")
  ELSE LET c == CreateDenoiser(params.method, params.params)
       IN IF c.status # "ok" THEN Raised(c.status)
          ELSE DenoiseOf(c.self, data, EmptyKw).ret

\* MainController.on_denoiser_set: the record of the step-3 widget goes to
\* perform_denoising; an exception there leaves the slot before the
\* metrics and before the step changes
OnDenoiserSet ==
  /\ denoiser = NoInst /\ last = Idle
  /\ \E method \in ComboMethods :
       last' = Called("on_denoiser_set", method,
                      GetDenoisingParameters(method).parameters, noisy_data,
                      PerformDenoising(GetDenoisingParameters(method), noisy_data),
                      NoMsg)
  /\ UNCHANGED << PYWT_AVAILABLE, denoiser, made, noisy_data >>

\* the caller drops the denoiser (or the failed attempt) and starts over
Release ==
  /\ last # Idle
  /\ denoiser' = NoInst /\ made' = NotMade /\ last' = Idle
  /\ UNCHANGED << PYWT_AVAILABLE, noisy_data >>

Next ==
  \/ SupplyInput \/ Create \/ Construct \/ Denoise \/ DenoiseNonFinite
  \/ ApplySeparableFilter \/ ApplyDirectionalFilter \/ ApplyDirectionalMedianFilter
  \/ ApplyFastBilateralFilter \/ ApplySeparableBilateralFilter
  \/ ApplyVisuShrink \/ GetWaveletCoefficients \/ CalculatePSNR \/ OnDenoiserSet
  \/ Release

Spec == Init /\ [][Next]_vars

\* ------------------------------------------- one bilateral filtering pass
\* The loops of _bilateral_filter_1d / _bilateral_filter_2d, one output
\* position at a time and in any order: `last` holds the locals of the
\* running call (filtered_data, spatial_weights and the positions not yet
\* done), noisy_data is the array the caller passed (data is that object).

\* (variant: the filter works in place, filtered_data is data itself, so
\* a window holds the outputs already written)
PassSourceInPlace(data, filtered_data, todo) ==
  [shape |-> data.shape,
   v |-> [p \in 1..Len(data.v) |->
            IF p \in todo THEN data.v[p] ELSE filtered_data.v[p]]]

\* the array window_data and center_value are read from: data;
\* filtered_data = np.zeros_like(data) is another array
PassSource(data, filtered_data, todo) == data

\* filtered_data = np.zeros_like(data)
ZerosLike(data) == [shape |-> data.shape, v |-> [p \in 1..Len(data.v) |-> 0]]

\* spatial_weights, computed once before the loop
PassKernel(data, self) ==
  IF NDim(data) = 1
    THEN ComputeSpatialWeights1D(OddWindowSize(self.cfg.window_size),
                                 self.cfg.spatial_sigma)
  ELSE ComputeSpatialWeights2D(OddWindowSize(self.cfg.window_size),
                               self.cfg.spatial_sigma)

\* the loop body for the q-th sample (row-major, 1-based) of src
PassAt(src, q, spatial_weights, self) ==
  LET half_window == OddWindowSize(self.cfg.window_size) \div 2
  IN IF NDim(src) = 1
       THEN Bilateral1DAt(src.v, q - 1, half_window, spatial_weights,
                          self.cfg.intensity_sigma)
     ELSE Bilateral2DAt(src, (q - 1) \div src.shape[2], (q - 1) % src.shape[2],
                        half_window, spatial_weights, self.cfg.intensity_sigma)

\* the bilateral filters a pass is run with
PassFilters ==
  {BilateralFilterInit(kw).self :
     kw \in {EmptyKw, [window_size |-> 2], [spatial_sigma |-> 2, intensity_sigma |-> 1]}}

PassInputs == {a \in InputArrays : NDim(a) \in {1, 2}}

PassInit ==
  /\ PYWT_AVAILABLE = TRUE
  /\ denoiser \in PassFilters
  /\ made = [kind |-> "bilateral", kw |-> EmptyKw]
  /\ noisy_data \in PassInputs
  /\ last = Idle

\* denoise(noisy_data) enters the filter: the lines before the loop
PassStart ==
  /\ last = Idle
  /\ last' = [op |-> "_bilateral_filter", name |-> "bilateral",
              passed |-> noisy_data,
              filtered_data |-> ZerosLike(noisy_data),
              spatial_weights |-> PassKernel(noisy_data, denoiser),
              todo |-> 1..Size(noisy_data)]
  /\ UNCHANGED << PYWT_AVAILABLE, denoiser, made, noisy_data >>

\* one position is computed and written, whichever worker's turn it is
PassStep ==
  /\ last.op = "_bilateral_filter"
  /\ \E q \in last.todo :
       last' = [last EXCEPT
                  !.filtered_data.v[q] =
                    PassAt(PassSource(noisy_data, last.filtered_data, last.todo), q,
                           last.spatial_weights, denoiser),
                  !.todo = last.todo \ {q}]
  /\ UNCHANGED << PYWT_AVAILABLE, denoiser, made, noisy_data >>

\* return filtered_data
PassReturn ==
  /\ last.op = "_bilateral_filter" /\ last.todo = {}
  /\ last' = Called("denoise", "bilateral", EmptyKw, last.passed,
                    Returned(last.filtered_data, "new", << >>, NoSym), NoMsg)
  /\ UNCHANGED << PYWT_AVAILABLE, denoiser, made, noisy_data >>

\* the caller takes the result and comes with another array
PassAgain ==
  /\ last.op = "denoise"
  /\ last' = Idle
  /\ \E a \in PassInputs : noisy_data' = a
  /\ UNCHANGED << PYWT_AVAILABLE, denoiser, made >>

PassNext == PassStart \/ PassStep \/ PassReturn \/ PassAgain

PassSpec == PassInit /\ [][PassNext]_vars

\* ------------------------------------------------------------------ claims
Returns == last.ret.status = "ok"

\* the configuration a denoise call works with: the override, else the
\* stored value
Effective(key) == IF HasKey(last.kw, key) THEN last.kw[key] ELSE denoiser.cfg[key]

\* C1: whenever denoise returns, for any of the five algorithms and any 1D
\* or 2D input, the returned array has exactly the shape of the input.
C1_ShapePreserved ==
  (last.op = "denoise" /\ Returns) => last.ret.out.shape = last.passed.shape

\* a wavelet denoise of an odd-length 1D input through at least one level:
\* the reconstruction is one sample longer than the input and is cropped
C1_Witness ==
  /\ last.op = "denoise" /\ last.name = "wavelet" /\ Returns
  /\ last.ret.sym.level >= 1
  /\ last.passed.shape = << 3 >>
  /\ WaverecLen(WavedecLens(3, DecLen(last.ret.sym.wavelet), last.ret.sym.level),
                DecLen(last.ret.sym.wavelet)) > 3

\* C2: the unsupported-algorithm error of create_denoiser names the
\* offending input and lists exactly the names create_denoiser resolves.
C2_ErrorListsResolvableNames ==
  (last.op = "create_denoiser" /\ last.ret.status = "ValueError") =>
    /\ last.msg.type = Lower(last.name)
    /\ SeqRange(last.msg.available) =
         {Lower(n) : n \in {t \in TypeNames : CreateDenoiser(t, EmptyKw).status = "ok"}}

\* C3: each of the five components has a name that create_denoiser
\* resolves to a denoiser of that component (the wavelet library present).
C3_EveryComponentHasAName ==
  PYWT_AVAILABLE =>
    \A k \in Components :
      \E n \in TypeNames :
        /\ CreateDenoiser(n, EmptyKw).status = "ok"
        /\ CreateDenoiser(n, EmptyKw).self.kind = k

\* the instance the constructor call recorded in `made` gives
Fresh == ConstructClass(made.kind, made.kw).self

\* C4: overrides hold for one call only: after any calls the stored
\* configuration is the constructed one, and a denoise call without
\* overrides (the last one made, or one made now) gives what a freshly
\* constructed instance gives.
C4_OverridesForOneCallOnly ==
  denoiser # NoInst =>
    /\ denoiser = Fresh
    /\ DenoiseOf(denoiser, noisy_data, EmptyKw).ret
         = DenoiseOf(Fresh, noisy_data, EmptyKw).ret
    /\ (last.op = "denoise" /\ last.kw = EmptyKw) =>
         last.ret = DenoiseOf(Fresh, last.passed, EmptyKw).ret

\* a denoise call has just run with an override that differs from the
\* stored value
C4_Witness ==
  /\ last.op = "denoise" /\ Returns
  /\ \E key \in DOMAIN last.kw : last.kw[key] # Fresh.cfg[key]
  /\ last.ret.out # DenoiseOf(Fresh, last.passed, EmptyKw).ret.out
  /\ denoiser = Fresh

MethodOps ==
  {"denoise", "apply_separable_filter", "apply_directional_filter",
   "apply_directional_median_filter", "apply_fast_bilateral_filter",
   "apply_separable_bilateral_filter", "apply_visu_shrink"}

\* C5: no denoise / apply_* call changes the caller's array, and the array
\* it returns is never the caller's own array.
C5_InputNeitherMutatedNorAliased ==
  (last.op \in MethodOps /\ Returns) =>
    /\ noisy_data = last.passed
    /\ last.ret.buf # "input"

\* C6: no entry point of the bilateral filter or of the wavelet denoiser
\* returns a result for an input that is neither 1D nor 2D: it raises a
\* ValueError.
C6_UnsupportedRankRejected ==
  (last.op \in MethodOps /\ last.name \in {"bilateral", "wavelet"}
     /\ NDim(last.passed) \notin {1, 2}) =>
    last.ret.status = "ValueError"

\* the default-configured instance of a class, if one could be had
DefaultWavelet ==
  [kind |-> "wavelet",
   cfg |-> [wavelet |-> "db4", level |-> 4, threshold_mode |-> "soft",
            sigma_multiplier |-> 1]]

\* C7: without the wavelet library, resolving or constructing the wavelet
\* denoiser fails with ImportError and no instance, its denoise and
\* get_wavelet_coefficients raise ImportError before touching the data,
\* and every other algorithm is still resolved and denoises.
C7_MissingLibrary ==
  ~PYWT_AVAILABLE =>
    /\ denoiser.kind # "wavelet"
    /\ ((last.op \in {"create_denoiser", "construct"}
           /\ Lower(last.name) = "wavelet" /\ BindsTo(last.kw, WaveletParams)) =>
          (last.ret.status = "ImportError" /\ last.ret.out = NoArray
             /\ denoiser = NoInst))
    /\ WaveletDenoise(DefaultWavelet, noisy_data, EmptyKw).ret = Raised("ImportError")
    /\ WaveletGetCoefficients(DefaultWavelet, noisy_data, EmptyKw).ret
         = Raised("ImportError")
    /\ \A n \in {"gaussian", "moving_average", "uniform", "median"} :
         /\ CreateDenoiser(n, EmptyKw).status = "ok"
         /\ DenoiseOf(CreateDenoiser(n, EmptyKw).self, noisy_data, EmptyKw).ret.status
              = "ok"
    /\ (last.op = "denoise" /\ last.kw = EmptyKw /\ made.kw = EmptyKw
          /\ last.name \in {"gaussian", "moving_average", "median"}) => Returns

\* the factory was asked for the wavelet denoiser without the library
C7_Witness ==
  /\ ~PYWT_AVAILABLE
  /\ last.op = "create_denoiser" /\ last.name = "wavelet"
  /\ BindsTo(last.kw, WaveletParams)
  /\ last.ret.status = "ImportError"

\* the window of the median filter around the flat position q (1-based) of
\* the array passed to the last call
MedianWindowAt(q) ==
  Window(last.passed, q - 1, CenteredLo(last.ret.win), CenteredHi(last.ret.win),
         denoiser.cfg.mode, 0)

\* C8: every sample the median filter returns is the value of a sample of
\* its window (positions outside the array supplied by the boundary
\* mode), for every size, even sizes included.
C8_MedianIsWindowSample ==
  (last.op = "denoise" /\ last.name = "median" /\ Returns) =>
    /\ last.ret.win = NormalizeSize(last.passed, Effective("size"))
    /\ \A q \in 1..Size(last.passed) :
         last.ret.out.v[q] \in SeqRange(MedianWindowAt(q))

\* a median filter of even size has changed a sample, at a position whose
\* window holds two different values
C8_Witness ==
  /\ last.op = "denoise" /\ last.name = "median" /\ Returns
  /\ Effective("size") = 2
  /\ \E q \in 1..Size(last.passed) :
       /\ last.ret.out.v[q] # last.passed.v[q]
       /\ Cardinality(SeqRange(MedianWindowAt(q))) > 1

\* the parameters of each constructor and their defaults, as its signature
\* gives them (None is << >>)
SignatureOf(kind) ==
  CASE kind = "gaussian" ->
         [sigma |-> 1, mode |-> "reflect", cval |-> 0, sigma_raw |-> << >>,
          sigma_col |-> << >>, size |-> << >>]
    [] kind = "moving_average" -> [window_size |-> 3, axis |-> << >>, mode |-> "reflect"]
    [] kind = "median" -> [size |-> 3, mode |-> "reflect"]
    [] kind = "wavelet" ->
         [wavelet |-> "db4", level |-> 4, threshold_mode |-> "soft",
          sigma_multiplier |-> 1]

\* the parameters whose default is None
DefaultsToNone(kind) ==
  CASE kind = "gaussian" -> {"sigma_raw", "sigma_col", "size"}
    [] kind = "moving_average" -> {"axis"}
    [] OTHER -> {}

\* the stored value of a given keyword (<< x >> where the default is None)
Stored(kind, kw, key) ==
  IF key \in DefaultsToNone(kind) THEN << kw[key] >> ELSE kw[key]

\* create_denoiser was called with a name it resolves (and, for the
\* wavelet denoiser, the library is there)
ResolvableCall ==
  /\ last.op = "create_denoiser"
  /\ KindOfName(last.name) \in {"gaussian", "moving_average", "median", "wavelet"}
  /\ KindOfName(last.name) = "wavelet" => PYWT_AVAILABLE

\* every recognized key has the value given for it, else its default
KeysTakeEffect ==
  \A key \in DOMAIN SignatureOf(KindOfName(last.name)) :
    denoiser.cfg[key] =
      IF HasKey(last.kw, key) THEN Stored(KindOfName(last.name), last.kw, key)
      ELSE SignatureOf(KindOfName(last.name))[key]

\* C9 as stated: whatever keys the configuration record has, resolution
\* succeeds, unrecognized keys are ignored, recognized keys take effect and
\* missing keys take their defaults.
C9_UnrecognizedKeysIgnored ==
  ResolvableCall =>
    /\ Returns
    /\ denoiser.kind = KindOfName(last.name)
    /\ KeysTakeEffect

\* C9 (amended): a record whose keys are all parameters of the constructor
\* resolves, given keys take effect and missing keys take their defaults;
\* a record with any other key is not ignored: resolution fails with a
\* TypeError and there is no denoiser.
C9_KeysBoundOrRejected ==
  ResolvableCall =>
    IF DOMAIN last.kw \subseteq DOMAIN SignatureOf(KindOfName(last.name))
      THEN /\ Returns
           /\ denoiser.kind = KindOfName(last.name)
           /\ KeysTakeEffect
      ELSE /\ last.ret.status = "TypeError"
           /\ denoiser = NoInst

\* a resolution with one key given and the others left to their defaults
C9_Witness ==
  /\ ResolvableCall /\ Returns
  /\ last.name = "median"
  /\ DOMAIN last.kw = {"mode"}
  /\ denoiser.cfg.mode = last.kw.mode /\ denoiser.cfg.mode # "reflect"
  /\ denoiser.cfg.size = 3

WindowedKinds == {"bilateral", "median", "moving_average"}

WindowKey == IF last.name = "median" THEN "size" ELSE "window_size"

WindowedFilters == {"gaussian", "moving_average", "median", "bilateral"}

\* C11: each windowed filter (Gaussian, moving-average, median, bilateral)
\* takes the boundary mode as a configuration option: constructed with
\* mode = m, m one of the five modes, it is constructed and m is its mode.
C11_BoundaryModeIsAnOption ==
  (last.op = "construct" /\ last.name \in WindowedFilters
     /\ DOMAIN last.kw = {"mode"} /\ last.kw.mode \in BoundaryModes) =>
    /\ Returns
    /\ denoiser.kind = last.name
    /\ denoiser.cfg.mode = last.kw.mode

SigmaKeys == {"sigma", "spatial_sigma", "intensity_sigma", "sigma_row", "sigma_col"}

\* a keyword record that gives some sigma a value that is not positive
GivesNonPositiveSigma(kw) == \E k \in DOMAIN kw \cap SigmaKeys : kw[k] <= 0

\* C12: a non-positive sigma (Gaussian sigma, spatial_sigma,
\* intensity_sigma), given to the constructor or as a per-call override,
\* is reported as an error: the call neither constructs nor returns.
C12_NonPositiveSigmaReported ==
  (last.op \in MethodOps \cup {"construct", "create_denoiser"}
     /\ GivesNonPositiveSigma(last.kw)) =>
    ~Returns

\* the deepest decomposition every transformed axis of the array supports
SupportedLevel(m, wavelet) ==
  LET levels == {DwtMaxLevel(m.shape[a], DecLen(wavelet)) : a \in 1..NDim(m)}
  IN CHOOSE l \in levels : \A k \in levels : l <= k

\* C13: a wavelet denoise (1D or 2D) whose decomposition level, from the
\* constructor or from the call, exceeds what the data length supports
\* for the wavelet raises a configuration error and returns no matrix.
C13_LevelTooHighRejected ==
  (last.op = "denoise" /\ last.name = "wavelet" /\ NDim(last.passed) \in {1, 2}
     /\ Effective("level") > SupportedLevel(last.passed, Effective("wavelet"))) =>
    /\ last.ret.status = "ValueError"
    /\ last.ret.out = NoArray

\* a wavelet call has returned an array whose samples the model evaluates
WaveletEvaluated ==
  /\ last.op \in {"denoise", "apply_visu_shrink"} /\ last.name = "wavelet" /\ Returns
  /\ Len(last.ret.out.v) = Size(last.ret.out)

\* the shrinkage rule: soft sign(c) * max(|c| - t, 0); hard c if |c| > t, else 0
ShrinkageRule(c, t, mode) ==
  IF mode = "soft" THEN Sign(c) * Max2(Abs(c) - t, 0)
  ELSE IF Abs(c) > t THEN c ELSE 0

\* C14: every detail coefficient c is shrunk with the threshold t by the
\* rule: soft sign(c) * max(|c| - t, 0), hard c if |c| > t and 0 otherwise;
\* so a coefficient not strictly above the threshold becomes exactly 0.
C14_ShrinkageByTheRule ==
  WaveletEvaluated =>
    \A k \in 1..Len(last.ret.sym.detail) :
      /\ last.ret.sym.shrunk[k] =
           ShrinkageRule(last.ret.sym.detail[k], last.ret.sym.threshold,
                         last.ret.sym.threshold_mode)
      /\ Abs(last.ret.sym.detail[k]) <= last.ret.sym.threshold =>
           last.ret.sym.shrunk[k] = 0

\* C15: with threshold 0 the shrinkage leaves every coefficient as it is,
\* in soft and in hard mode, and the reconstruction, cropped, is the input.
C15_RoundTripAtThresholdZero ==
  (WaveletEvaluated /\ last.ret.sym.threshold = 0) =>
    /\ last.ret.sym.shrunk = last.ret.sym.detail
    /\ last.ret.out = last.passed

\* C16: apply_visu_shrink(X, wavelet, level) returns (or raises) exactly
\* what denoise(X, wavelet, level, threshold_mode='soft') does, whatever
\* threshold_mode the instance has: the shrinkage is soft, the threshold
\* the universal one.
C16_VisuShrinkIsSoftDenoise ==
  last.op = "apply_visu_shrink" =>
    /\ last.ret
         = WaveletDenoise(denoiser, last.passed,
                          last.kw @@ [threshold_mode |-> "soft"]).ret
    /\ (Returns /\ NDim(last.passed) \in {1, 2} /\ last.ret.sym # NoSym) =>
         last.ret.sym.threshold_mode = "soft"
    /\ (Returns /\ last.ret.sym.detail # << >>) =>
         /\ last.ret.sym.threshold
              = UniversalThreshold(last.ret.sym.detail, denoiser.cfg.sigma_multiplier,
                                   Size(last.passed))
         /\ \A k \in 1..Len(last.ret.sym.detail) :
              last.ret.sym.shrunk[k]
                = PywtThreshold(last.ret.sym.detail[k], last.ret.sym.threshold, "soft")

\* apply_visu_shrink has returned on an instance configured for hard
\* shrinkage, with samples other than those of the instance's own mode
C16_Witness ==
  /\ last.op = "apply_visu_shrink" /\ Returns
  /\ denoiser.cfg.threshold_mode = "hard"
  /\ last.ret.sym.detail # << >>
  /\ last.ret.out # WaveletDenoise(denoiser, last.passed, last.kw).ret.out

\* intensity_sigma values a second call is made with
OtherIntensitySigmas == {0, 1, 10}

\* the instance with another intensity_sigma, and the call with another
\* intensity_sigma argument
WithIntensitySigma(self, is) == [self EXCEPT !.cfg.intensity_sigma = is]
WithIntensityArg(kw, is) == [intensity_sigma |-> is] @@ kw

\* C17: apply_fast_bilateral_filter ignores intensity_sigma: a call that
\* differs only in it (constructor value or argument) returns the same
\* samples, those of a Gaussian blur with spatial_sigma; denoise is the
\* full bilateral filter, never the approximation.
C17_FastVariantIgnoresIntensity ==
  /\ last.op = "apply_fast_bilateral_filter" =>
       /\ Returns
       /\ last.ret.out
            = GaussianFilterND(last.passed, Effective("spatial_sigma"), "reflect", 0)
       /\ \A is \in OtherIntensitySigmas :
            /\ BilateralApplyFast(WithIntensitySigma(denoiser, is), last.passed,
                                  last.kw).ret = last.ret
            /\ BilateralApplyFast(denoiser, last.passed,
                                  WithIntensityArg(last.kw, is)).ret = last.ret
  /\ (last.op = "denoise" /\ last.name = "bilateral" /\ NDim(last.passed) = 1) =>
       last.ret.out.v
         = BilateralFilter1D(last.passed.v, Effective("spatial_sigma"),
                             Effective("intensity_sigma"), Effective("window_size"))

\* the fast variant has blurred an array with an intensity_sigma argument
\* under which denoise gives other samples
C17_Witness ==
  /\ last.op = "apply_fast_bilateral_filter" /\ Returns
  /\ HasKey(last.kw, "intensity_sigma")
  /\ last.kw.intensity_sigma # denoiser.cfg.intensity_sigma
  /\ last.ret.out # last.passed
  /\ NDim(last.passed) = 1
  /\ last.ret.out # BilateralDenoise(denoiser, last.passed, last.kw).ret.out

\* the sigmas an apply_separable_filter call works with
SigmaRow == IF HasKey(last.kw, "sigma_row") THEN last.kw.sigma_row ELSE denoiser.cfg.sigma
SigmaCol == IF HasKey(last.kw, "sigma_col") THEN last.kw.sigma_col ELSE denoiser.cfg.sigma

\* the row pass (axis=1) and the column pass (axis=0) alone
RowPass(m, sigma) ==
  GaussianFilter1D(m, sigma, 2, denoiser.cfg.mode, denoiser.cfg.cval * UNIT)
ColPass(m, sigma) ==
  GaussianFilter1D(m, sigma, 1, denoiser.cfg.mode, denoiser.cfg.cval * UNIT)

\* C18: a Gaussian filter with sigma = 0 on an axis leaves that axis as it
\* is: apply_separable_filter with sigma_row = 0 returns the column pass
\* of the input, with sigma_col = 0 the row pass, with both 0 the input;
\* denoise with sigma = 0 returns the input.
C18_ZeroSigmaIsIdentity ==
  /\ (last.op = "apply_separable_filter" /\ SigmaRow = 0 /\ SigmaCol = 0) =>
       (Returns /\ last.ret.out = last.passed)
  /\ (last.op = "apply_separable_filter" /\ SigmaRow = 0 /\ SigmaCol > 0) =>
       (Returns /\ last.ret.out = ColPass(last.passed, SigmaCol))
  /\ (last.op = "apply_separable_filter" /\ SigmaCol = 0 /\ SigmaRow > 0
        /\ NDim(last.passed) >= 2) =>
       (Returns /\ last.ret.out = RowPass(last.passed, SigmaRow))
  /\ (last.op = "denoise" /\ last.name = "gaussian" /\ Effective("sigma") = 0) =>
       (Returns /\ last.ret.out = last.passed)

\* apply_separable_filter has smoothed the columns of a 2D array and left
\* its rows alone (sigma_row = 0)
C18_Witness ==
  /\ last.op = "apply_separable_filter" /\ Returns
  /\ SigmaRow = 0 /\ SigmaCol > 0
  /\ NDim(last.passed) = 2
  /\ last.ret.out # last.passed
  /\ last.ret.out # RowPass(ColPass(last.passed, SigmaCol), SigmaCol)

\* C19: PSNRCalculator.calculate rejects arrays of different shapes with
\* an error and no value; on arrays of one shape it returns +infinity
\* when no sample differs (the mean-square error is 0), and otherwise
\* 20 * log10(range / sqrt(MSE)), the range being max - min of the
\* original data: 10 * log10 of range^2 * size over the sum of the
\* squared differences.
C19_PSNRValue ==
  last.op = "calculate" =>
    LET original_data == last.passed
        processed_data == last.kw.processed_data
    IN IF original_data.shape # processed_data.shape
         THEN last.ret.status = "ValueError" /\ ~HasKey(last.ret, "value")
       ELSE IF original_data.v = processed_data.v
         THEN Returns /\ last.ret.value = Inf
       ELSE /\ Returns
            /\ last.ret.value.den > 0
            /\ last.ret.value.den =
                 SumSeq([i \in 1..Size(original_data) |->
                           (processed_data.v[i] - original_data.v[i])
                             * (processed_data.v[i] - original_data.v[i])])
            /\ \E hi, lo \in SeqRange(original_data.v) :
                 /\ \A y \in SeqRange(original_data.v) : lo <= y /\ y <= hi
                 /\ last.ret.value.num = (hi - lo) * (hi - lo) * Size(original_data)

\* calculate has returned a finite value for a processed array whose
\* range is not that of the original
C19_Witness ==
  /\ last.op = "calculate" /\ Returns
  /\ last.ret.value.den > 0 /\ last.ret.value.num > 0
  /\ DataRange(last.kw.processed_data) # DataRange(last.passed)

\* row and column (0-based) of the q-th sample of m, a 1D array being one row
RowAt(m, q) == IF NDim(m) = 2 THEN (q - 1) \div m.shape[2] ELSE 0
ColAt(m, q) == IF NDim(m) = 2 THEN (q - 1) % m.shape[2] ELSE q - 1

\* the samples of m in the window of half-width hw around the q-th
InWindow(m, q, hw) ==
  {p \in 1..Size(m) : /\ Abs(RowAt(m, p) - RowAt(m, q)) <= hw
                      /\ Abs(ColAt(m, p) - ColAt(m, q)) <= hw}

\* the Gaussian weight of the p-th sample for the q-th, in units of 1/WUNIT
SpatialWeight(m, p, q, sigma) ==
  ExpNegHalfQ((RowAt(m, p) - RowAt(m, q)) * (RowAt(m, p) - RowAt(m, q))
                + (ColAt(m, p) - ColAt(m, q)) * (ColAt(m, p) - ColAt(m, q)),
              sigma * sigma)

\* the spatial-Gaussian-weighted average of the samples around the q-th
SpatialAverage(m, q, hw, sigma) ==
  SumSeq([p \in 1..Size(m) |->
            IF p \in InWindow(m, q, hw) THEN SpatialWeight(m, p, q, sigma) * m.v[p]
            ELSE 0])
    \div SumSeq([p \in 1..Size(m) |->
                   IF p \in InWindow(m, q, hw) THEN SpatialWeight(m, p, q, sigma)
                   ELSE 0])

\* every intensity weight of every window of a bilateral denoise call is 1
IntensityWeightingOff(m, hw, intensity_sigma) ==
  \A q \in 1..Size(m) :
    \A w \in SeqRange(IntensityWeights([p \in 1..Size(m) |->
                                          IF p \in InWindow(m, q, hw) THEN m.v[p]
                                          ELSE m.v[q]],
                                       m.v[q], intensity_sigma)) :
      w = WUNIT

\* C20: when every intensity weight is 1 (as with intensity_sigma =
\* infinity), the bilateral filter's output at every position, interior
\* and edge, is the spatial-Gaussian-weighted average of the input
\* samples of the window around it (at an edge: of those inside the array).
C20_DegenerateIsSpatialAverage ==
  (/\ last.op = "denoise" /\ last.name = "bilateral"
   /\ NDim(last.passed) \in {1, 2}
   /\ Effective("spatial_sigma") > 0
   /\ IntensityWeightingOff(last.passed, Effective("window_size") \div 2,
                            Effective("intensity_sigma"))) =>
    /\ Returns
    /\ last.ret.out.shape = last.passed.shape
    /\ \A q \in 1..Size(last.passed) :
         last.ret.out.v[q] = SpatialAverage(last.passed, q,
                                            Effective("window_size") \div 2,
                                            Effective("spatial_sigma"))

\* the bilateral filter has smoothed a non-constant 1D array with
\* intensity_sigma = infinity
C20_Witness ==
  /\ last.op = "denoise" /\ last.name = "bilateral" /\ Returns
  /\ Effective("intensity_sigma") = PosInf
  /\ last.passed.shape = << MaxLen >>
  /\ last.ret.out # last.passed
  /\ last.ret.out.v[1] # last.ret.out.v[MaxLen]

\* the combined (spatial times intensity) weight of the p-th sample for
\* the output position q, in units of 1/WUNIT^2, or NaN
CombinedWeight(m, p, q, spatial_sigma, intensity_sigma) ==
  LET w == SpatialWeight(m, p, q, spatial_sigma)
      g == IntensityWeights(<< m.v[p] >>, m.v[q], intensity_sigma)[1]
  IN IF w = NaN \/ g = NaN THEN NaN ELSE w * g

\* the positions of the window of q, in row-major order
WindowSeq(m, q, hw) ==
  SelectSeq([p \in 1..Size(m) |-> p], LAMBDA p : p \in InWindow(m, q, hw))

\* C21: at every output position of the 1D and 2D bilateral filter, when
\* the combined weights sum to > 0 the output is the average of the
\* window samples under these weights, otherwise it is the center sample
\* (a sum that is not a number is not > 0); no NaN is written for finite
\* input, also when a sigma is 0.
C21_AverageOrCenter ==
  (last.op = "denoise" /\ last.name = "bilateral" /\ NDim(last.passed) \in {1, 2}) =>
    /\ Returns
    /\ \A q \in 1..Size(last.passed) :
         LET m == last.passed
             win == WindowSeq(m, q, Effective("window_size") \div 2)
             tw == [t \in 1..Len(win) |->
                      CombinedWeight(m, win[t], q, Effective("spatial_sigma"),
                                     Effective("intensity_sigma"))]
             defined == \A t \in 1..Len(win) : tw[t] # NaN
         IN /\ last.ret.out.v[q] # NaN
            /\ IF defined /\ SumSeq(tw) > 0
                 THEN last.ret.out.v[q] =
                        SumSeq([t \in 1..Len(win) |-> tw[t] * m.v[win[t]]])
                          \div SumSeq(tw)
               ELSE last.ret.out.v[q] = m.v[q]

\* the filter has fallen back to the center samples of a non-constant
\* array: intensity_sigma = 0 makes the center's own weight 0/0
C21_Witness ==
  /\ last.op = "denoise" /\ last.name = "bilateral" /\ Returns
  /\ Effective("intensity_sigma") = 0
  /\ Effective("spatial_sigma") > 0
  /\ \E p, q \in 1..Size(last.passed) : last.passed.v[p] # last.passed.v[q]
  /\ last.ret.out = last.passed
  /\ CombinedWeight(last.passed, 1, 1, Effective("spatial_sigma"), 0) = NaN

\* a wavelet denoise call (denoise or apply_visu_shrink) that decomposed
\* its input into at least one detail level
WaveletDecomposed ==
  /\ last.op \in {"denoise", "apply_visu_shrink"} /\ last.name = "wavelet"
  /\ Returns
  /\ last.ret.sym.level >= 1

\* C22: the noise estimate is taken from the finest detail level only
\* (level 1, the last entry of the coefficient list), whatever the number
\* of levels, in 1D and in 2D.
C22_SigmaFromFinestLevel ==
  WaveletDecomposed =>
    /\ last.ret.sym.sigma_from >= 2
    /\ last.ret.sym.coeffs[last.ret.sym.sigma_from].band = "d"
    /\ last.ret.sym.coeffs[last.ret.sym.sigma_from].level = 1

\* what the decomposition of a wavelet call received: the samples the
\* result is computed from (the returned samples when there was no
\* decomposition step, level 0)
Decomposed == IF last.ret.sym = NoSym THEN last.ret.out.v ELSE last.ret.sym.of

\* C23: before the decomposition every non-finite sample (NaN, +inf,
\* -inf) is replaced by zero, in the 1D path and in the 2D path, and the
\* finite samples are passed as they are.
C23_NonFiniteReplacedByZero ==
  (last.op = "denoise" /\ last.name = "wavelet" /\ Returns) =>
    /\ Len(Decomposed) = Size(last.passed)
    /\ \A k \in 1..Len(Decomposed) :
         Decomposed[k] = IF IsFinite(last.passed.v[k]) THEN last.passed.v[k] ELSE 0

\* C24: in a wavelet denoise call the list given to the reconstruction has
\* the entries of the decomposition in the same order and with the same
\* shapes; its first entry is the approximation, not thresholded, and
\* every other entry is a detail level shrunk with the one threshold of
\* the call.
C24_ApproximationKeptDetailsShrunk ==
  WaveletDecomposed =>
    LET coeffs == last.ret.sym.coeffs
        thresh == last.ret.sym.coeffs_thresh
    IN /\ Len(coeffs) = last.ret.sym.level + 1
       /\ Len(thresh) = Len(coeffs)
       /\ thresh[1].band = "a" /\ ~thresh[1].shrunk
       /\ \A k \in 1..Len(coeffs) :
            /\ thresh[k].band = coeffs[k].band
            /\ thresh[k].level = coeffs[k].level
            /\ thresh[k].shape = coeffs[k].shape
       /\ \A k \in 2..Len(coeffs) :
            /\ thresh[k].band = "d" /\ thresh[k].shrunk
            /\ thresh[k].level = Len(coeffs) - k + 1
       /\ \A k \in 1..Len(last.ret.sym.detail) :
            last.ret.sym.shrunk[k] =
              PywtThreshold(last.ret.sym.detail[k], last.ret.sym.threshold,
                            last.ret.sym.threshold_mode)

\* a 2D array has been denoised over four levels
C24_Witness ==
  /\ WaveletDecomposed /\ last.op = "denoise"
  /\ NDim(last.passed) = 2
  /\ Len(last.ret.sym.coeffs_thresh) = 5
  /\ last.ret.sym.coeffs_thresh[5].shrunk

\* the levels the reconstruction length is looked at for
CropLevels == 0..4

\* C25: the wavelet result is the reconstruction cropped, never padded:
\* along every axis the reconstruction is at least as long as the input
\* (for the call's wavelet and every level), and the array returned has
\* exactly the input's shape.
C25_CroppedNeverPadded ==
  (last.op \in {"denoise", "apply_visu_shrink"} /\ last.name = "wavelet" /\ Returns) =>
    /\ last.ret.out.shape = last.passed.shape
    /\ last.ret.sym # NoSym =>
         /\ Len(last.ret.sym.rec_shape) = NDim(last.passed)
         /\ \A a \in 1..NDim(last.passed) :
              /\ last.ret.sym.rec_shape[a] >= last.passed.shape[a]
              /\ \A level \in CropLevels :
                   WaverecLen(WavedecLens(last.passed.shape[a],
                                          DecLen(last.ret.sym.wavelet), level),
                              DecLen(last.ret.sym.wavelet))
                     >= last.passed.shape[a]

\* a reconstruction longer than the input has been cropped
C25_Witness ==
  /\ last.op = "denoise" /\ last.name = "wavelet" /\ Returns
  /\ last.ret.sym # NoSym
  /\ \E a \in 1..NDim(last.passed) : last.ret.sym.rec_shape[a] > last.passed.shape[a]
  /\ last.ret.out.shape = last.passed.shape

\* C26: during a bilateral pass the input array and the kernel are never
\* written, every position already computed holds the value the
\* sequential row-major loop gives it, whatever the order the positions
\* are taken in, and the array returned is that of the sequential loop.
C26_AnyOrderSameOutput ==
  /\ last.op = "_bilateral_filter" =>
       /\ noisy_data = last.passed
       /\ last.spatial_weights = PassKernel(noisy_data, denoiser)
       /\ \A q \in 1..Size(noisy_data) :
            last.filtered_data.v[q] =
              IF q \in last.todo THEN 0
              ELSE BilateralDenoise(denoiser, noisy_data, EmptyKw).ret.out.v[q]
  /\ last.op = "denoise" =>
       /\ noisy_data = last.passed
       /\ last.ret.out = BilateralDenoise(denoiser, noisy_data, EmptyKw).ret.out

\* the last position of a non-constant array has been written before the
\* first, its neighbour, and the output differs from the input
C26_Witness ==
  /\ last.op = "_bilateral_filter"
  /\ Size(noisy_data) >= 2
  /\ 1 \in last.todo /\ Size(noisy_data) \notin last.todo
  /\ noisy_data.v[1] # noisy_data.v[Size(noisy_data)]
  /\ last.filtered_data.v[Size(noisy_data)] # noisy_data.v[Size(noisy_data)]

\* the first and one past the last index (0-based) of the window of
\* position i on an axis of length n
WinStart(i, hw) == IF i - hw > 0 THEN i - hw ELSE 0
WinEnd(i, hw, n) == IF i + hw + 1 < n THEN i + hw + 1 ELSE n

\* C27: at every position of a bilateral denoise call, interior or edge,
\* also when the window is larger than the data, the slice of the spatial
\* kernel has the shape of the truncated window, and the weight paired
\* with the sample at index k is the kernel's entry for the offset k - i
\* (per axis): the center sample gets the offset-0 weight.
C27_KernelSliceAligned ==
  (last.op = "denoise" /\ last.name = "bilateral" /\ NDim(last.passed) \in {1, 2}
     /\ Effective("spatial_sigma") > 0) =>
    LET hw == OddWindowSize(Effective("window_size")) \div 2
        sigma == Effective("spatial_sigma")
        rows == IF NDim(last.passed) = 2 THEN last.passed.shape[1] ELSE 1
        cols == last.passed.shape[NDim(last.passed)]
        k1 == ComputeSpatialWeights1D(OddWindowSize(Effective("window_size")), sigma)
        k2 == ComputeSpatialWeights2D(OddWindowSize(Effective("window_size")), sigma)
    IN /\ NDim(last.passed) = 1 =>
            \A i \in 0..(cols - 1) :
              LET w == WindowSpatialWeights1D(k1, i, hw, cols)
              IN /\ Len(w) = WinEnd(i, hw, cols) - WinStart(i, hw)
                 /\ \A k \in WinStart(i, hw)..(WinEnd(i, hw, cols) - 1) :
                      /\ w[k - WinStart(i, hw) + 1] = k1[hw + (k - i) + 1]
                      /\ w[k - WinStart(i, hw) + 1] = ExpNegHalfSq(Abs(k - i), sigma)
                 /\ w[i - WinStart(i, hw) + 1] = WUNIT
       /\ NDim(last.passed) = 2 =>
            \A i \in 0..(rows - 1), j \in 0..(cols - 1) :
              LET w == WindowSpatialWeights2D(k2, i, j, hw, rows, cols)
              IN /\ Len(w) = WinEnd(i, hw, rows) - WinStart(i, hw)
                 /\ \A r \in WinStart(i, hw)..(WinEnd(i, hw, rows) - 1) :
                      /\ Len(w[r - WinStart(i, hw) + 1])
                           = WinEnd(j, hw, cols) - WinStart(j, hw)
                      /\ \A c \in WinStart(j, hw)..(WinEnd(j, hw, cols) - 1) :
                           w[r - WinStart(i, hw) + 1][c - WinStart(j, hw) + 1]
                             = k2[hw + (r - i) + 1][hw + (c - j) + 1]
                 /\ w[i - WinStart(i, hw) + 1][j - WinStart(j, hw) + 1] = WUNIT

\* a bilateral denoise call whose window (5 samples) is larger than its
\* non-constant 1D input and so is cut at both edges
C27_Witness ==
  /\ last.op = "denoise" /\ last.name = "bilateral" /\ Returns
  /\ NDim(last.passed) = 1 /\ Size(last.passed) = MaxLen
  /\ Effective("spatial_sigma") > 0
  /\ OddWindowSize(Effective("window_size")) > Size(last.passed)
  /\ last.ret.out # last.passed
  /\ Len(WindowSpatialWeights1D(
           ComputeSpatialWeights1D(OddWindowSize(Effective("window_size")),
                                   Effective("spatial_sigma")),
           0, OddWindowSize(Effective("window_size")) \div 2, MaxLen))
       < OddWindowSize(Effective("window_size"))

\* the samples of the window of q
WindowSamples(m, q, hw) == {m.v[p] : p \in InWindow(m, q, hw)}

\* C28: in a bilateral denoise call with finite input and non-zero finite
\* sigmas the center sample's combined weight is exactly 1 and no weight
\* is negative, so the weights sum to >= 1, the output is the weighted
\* average (never the fallback) and lies between the smallest and the
\* largest sample of its window; a constant input is returned unchanged.
C28_ConvexCombination ==
  (/\ last.op = "denoise" /\ last.name = "bilateral" /\ NDim(last.passed) \in {1, 2}
   /\ \A k \in 1..Size(last.passed) : IsFinite(last.passed.v[k])
   /\ Effective("spatial_sigma") \notin {0, PosInf}
   /\ Effective("intensity_sigma") \notin {0, PosInf}) =>
    LET m == last.passed
        hw == Effective("window_size") \div 2
        W(p, q) == CombinedWeight(m, p, q, Effective("spatial_sigma"),
                                  Effective("intensity_sigma"))
    IN /\ Returns
       /\ \A q \in 1..Size(m) :
            LET win == WindowSeq(m, q, hw)
                total == SumSeq([t \in 1..Len(win) |-> W(win[t], q)])
            IN /\ W(q, q) = WUNIT * WUNIT
               /\ \A t \in 1..Len(win) : W(win[t], q) >= 0
               /\ total >= WUNIT * WUNIT
               /\ last.ret.out.v[q]
                    = SumSeq([t \in 1..Len(win) |-> W(win[t], q) * m.v[win[t]]])
                        \div total
               /\ \E lo, hi \in WindowSamples(m, q, hw) :
                    lo <= last.ret.out.v[q] /\ last.ret.out.v[q] <= hi
       /\ (\A p, q \in 1..Size(m) : m.v[p] = m.v[q]) => last.ret.out = m

\* an output sample lies strictly between the smallest and the largest
\* sample of its window (intensity_sigma = 1)
C28_Witness ==
  /\ last.op = "denoise" /\ last.name = "bilateral" /\ Returns
  /\ NDim(last.passed) = 2
  /\ Effective("intensity_sigma") = 1
  /\ \E q \in 1..Size(last.passed) :
       \A x \in WindowSamples(last.passed, q, Effective("window_size") \div 2) :
         x # last.ret.out.v[q]

\* the shrinkage rule a wavelet call applied ("none": no detail level)
RuleOf(ret) == IF ret.sym = NoSym THEN "none" ELSE ret.sym.threshold_mode

\* C29: the 1D and the 2D wavelet paths treat threshold_mode alike: a
\* denoise call on a 2D array ends as the same call on one of its rows
\* does (both return or both raise) and applies the same shrinkage rule.
C29_SameRuleInBothPaths ==
  (/\ last.op = "denoise" /\ last.name = "wavelet"
   /\ NDim(last.passed) = 2 /\ PYWT_AVAILABLE) =>
    LET row == WaveletDenoise(denoiser,
                              [shape |-> << last.passed.shape[2] >>,
                               v |-> RowOf(last.passed, 0)],
                              last.kw).ret
    IN /\ last.ret.status = row.status
       /\ RuleOf(last.ret) = RuleOf(row)

\* C30: for every method of the step-3 widget the record of
\* get_denoising_parameters is accepted: perform_denoising finds the
\* method and the parameters under the keys it reads, the factory knows
\* the method, and denoised data of the input's shape is produced (so the
\* metrics and step 4 follow).
C30_WidgetRecordAccepted ==
  last.op = "on_denoiser_set" =>
    /\ HasKey(GetDenoisingParameters(last.name), "method")
    /\ HasKey(GetDenoisingParameters(last.name), "params")
    /\ last.ret.status \notin {"KeyError", "ValueError", "TypeError"}
    /\ (PYWT_AVAILABLE /\ NDim(last.passed) \in {1, 2}) =>
         (Returns /\ last.ret.out.shape = last.passed.shape)
====
